---- MODULE Spec2Model ----
(***************************************************************************)
(* A model of the semantic middle-end of the ante compiler:                *)
(*   - src/types/typechecker.rs     (unification, generalisation,          *)
(*                                   instantiation, the inference walk)    *)
(*   - src/hir/monomorphisation.rs  (type lowering, the definition cache,  *)
(*                                   static trait dispatch)                *)
(* Types are records tagged like the variants of types::Type.              *)
(***************************************************************************)
EXTENDS Integers, Sequences, FiniteSets, TLC

VARIABLES
    type_bindings,   \* cache.type_bindings : TypeVariableId -> TypeBinding
    bindings,        \* the UnificationBindings the caller currently holds
    call,            \* the last unification call: arguments, result, state before it
    performs,        \* number of accumulators committed so far
    current_level,   \* CURRENT_LEVEL
    refs,            \* ast::Variable.definition of every variable occurrence
    typed,           \* per AST node: its typ slot is Some
    info_typ,        \* per DefinitionInfoId: cache.definition_infos[id].typ is Some
    stack,           \* the calls of infer or monomorphise in progress, innermost last
    monomorphisation_bindings,    \* Context.monomorphisation_bindings, last pushed last
    definitions,                  \* Context.definitions : (DefinitionInfoId, Type) -> Definition
    types,                        \* Context.types : (TypeInfoId, args) -> hir Type
    direct_impl_mappings,         \* Context.direct_impl_mappings, one map per frame
    indirect_impl_mappings,       \* Context.indirect_impl_mappings
    direct_given_impl_mappings,   \* Context.direct_given_impl_mappings
    indirect_given_impl_mappings, \* Context.indirect_given_impl_mappings
    next_id,                      \* Context.next_id
    required_impls,               \* cache[VariableId].required_impls
    requests         \* the calls of monomorphise_definition_id made so far

infer_vars == <<refs, typed, info_typ, stack>>
impl_vars == <<direct_impl_mappings, indirect_impl_mappings,
               direct_given_impl_mappings, indirect_given_impl_mappings>>
mono_vars == <<monomorphisation_bindings, definitions, types, impl_vars,
               next_id, required_impls, requests>>
vars == <<type_bindings, bindings, call, performs, current_level, infer_vars, mono_vars>>

(***************************************************************************)
(* types::Type and types::TypeBinding                                      *)
(***************************************************************************)
Primitive(p) == [tag |-> "Prim", p |-> p]
TypeVariable(id) == [tag |-> "Var", id |-> id]
Ref(lifetime) == [tag |-> "Ref", id |-> lifetime]
UserDefined(id) == [tag |-> "UD", id |-> id]
Function(parameters, return_type, environment, is_varargs) ==
    [tag |-> "Fn", parameters |-> parameters, return_type |-> return_type,
     environment |-> environment, is_varargs |-> is_varargs]
TypeApplication(con, args) == [tag |-> "App", con |-> con, args |-> args]

Bound(typ) == [bound |-> TRUE, typ |-> typ]
Unbound(level) == [bound |-> FALSE, level |-> level]

\* lexer::token::IntegerKind, and PrimitiveType::IntegerType(kind)
IntegerKind(name) == [kind |-> name]
Inferred(id) == [kind |-> "Inferred", id |-> id]
IntegerType(kind) == [tag |-> "Prim", p |-> "IntegerType", kind |-> kind]

IntType == IntegerType(IntegerKind("I32"))
BoolType == Primitive("bool")
UnitType == Primitive("unit")

Min(a, b) == IF a < b THEN a ELSE b

(***************************************************************************)
(* UnificationBindings: a sparse map of type bindings plus level bindings  *)
(***************************************************************************)
EmptyMap == [x \in {} |-> UnitType]
UnificationBindings_empty == [bindings |-> EmptyMap, level_bindings |-> <<>>]

MapInsert(map, id, typ) ==
    [x \in (DOMAIN map) \cup {id} |-> IF x = id THEN typ ELSE map[x]]

find_binding(id, map, cache) ==
    IF cache[id].bound THEN cache[id]
    ELSE IF id \in DOMAIN map THEN Bound(map[id])
    ELSE cache[id]

(***************************************************************************)
(* The occurs check                                                        *)
(***************************************************************************)
OccursResult_new(occurs_, level_bindings) ==
    [occurs |-> occurs_, level_bindings |-> level_bindings]
OccursResult_does_not_occur == OccursResult_new(FALSE, <<>>)

OccursResult_then(self, other) ==
    IF ~self.occurs
    THEN OccursResult_new(other.occurs, self.level_bindings \o other.level_bindings)
    ELSE self

RECURSIVE occurs(_, _, _, _, _)
RECURSIVE typevars_match(_, _, _, _, _)
RECURSIVE OccursResult_then_all(_, _, _, _, _, _, _)

typevars_match(needle, level, haystack, map, cache) ==
    LET b == find_binding(haystack, map, cache) IN
    IF b.bound
    THEN occurs(needle, level, b.typ, map, cache)
    ELSE OccursResult_new(needle = haystack,
                          IF level < b.level THEN << <<needle, level>> >> ELSE <<>>)

\* then_all: visit typs[i..] in order, stop at the first occurrence
OccursResult_then_all(self, typs, i, id, level, map, cache) ==
    IF self.occurs \/ i > Len(typs) THEN self
    ELSE LET other == occurs(id, level, typs[i], map, cache)
             next == OccursResult_new(other.occurs,
                                      self.level_bindings \o other.level_bindings)
         IN OccursResult_then_all(next, typs, i + 1, id, level, map, cache)

occurs(id, level, typ, map, cache) ==
    CASE typ.tag \in {"Prim", "UD"} -> OccursResult_does_not_occur
      [] typ.tag = "Var" -> typevars_match(id, level, typ.id, map, cache)
      [] typ.tag = "Fn" ->
            OccursResult_then_all(
                OccursResult_then(occurs(id, level, typ.return_type, map, cache),
                                  occurs(id, level, typ.environment, map, cache)),
                typ.parameters, 1, id, level, map, cache)
      [] typ.tag = "App" ->
            OccursResult_then_all(occurs(id, level, typ.con, map, cache),
                                  typ.args, 1, id, level, map, cache)
      [] typ.tag = "Ref" -> typevars_match(id, level, typ.id, map, cache)

RECURSIVE follow_bindings_in_cache_and_map(_, _, _)
follow_bindings_in_cache_and_map(typ, map, cache) ==
    IF typ.tag \in {"Var", "Ref"}
    THEN LET b == find_binding(typ.id, map, cache) IN
         IF b.bound THEN follow_bindings_in_cache_and_map(b.typ, map, cache) ELSE typ
    ELSE typ

RECURSIVE follow_bindings_in_cache(_, _)
follow_bindings_in_cache(typ, cache) ==
    IF typ.tag \in {"Var", "Ref"}
    THEN IF cache[typ.id].bound THEN follow_bindings_in_cache(cache[typ.id].typ, cache)
         ELSE typ
    ELSE typ

(***************************************************************************)
(* Unification.  The state threaded through the recursion is the           *)
(* accumulator (bindings, level_bindings), the cache that every routine    *)
(* receives as &mut, and the error (""  while the result is Ok).           *)
(***************************************************************************)
UnifyState(ub, cache) ==
    [bindings |-> ub.bindings, level_bindings |-> ub.level_bindings,
     cache |-> cache, err |-> ""]

Fail(st, message) == [st EXCEPT !.err = message]

RECURSIVE try_unify_with_bindings(_, _, _)
RECURSIVE try_unify_type_variable_with_bindings(_, _, _, _)
RECURSIVE UnifyZip(_, _, _, _)

\* for (a, b) in xs.iter().zip(ys.iter()) { try_unify_with_bindings(a, b)? }
UnifyZip(xs, ys, i, st) ==
    IF st.err # "" \/ i > Len(xs) \/ i > Len(ys) THEN st
    ELSE UnifyZip(xs, ys, i + 1, try_unify_with_bindings(xs[i], ys[i], st))

\* try_unify_type_variable_with_bindings without the occurs check
try_unify_type_variable_unchecked(id, a, b, st) ==
    LET fb == find_binding(id, st.bindings, st.cache) IN
    IF fb.bound
    THEN try_unify_with_bindings(fb.typ, b, st)
    ELSE LET bb == follow_bindings_in_cache_and_map(b, st.bindings, st.cache) IN
         IF a # bb THEN [st EXCEPT !.bindings = MapInsert(@, id, bb)] ELSE st

\* try_unify_type_variable_with_bindings binding the variable in the cache
try_unify_type_variable_in_place(id, a, b, st) ==
    LET fb == find_binding(id, st.bindings, st.cache) IN
    IF fb.bound
    THEN try_unify_with_bindings(fb.typ, b, st)
    ELSE LET bb == follow_bindings_in_cache_and_map(b, st.bindings, st.cache) IN
         IF a # bb
         THEN IF occurs(id, fb.level, bb, st.bindings, st.cache).occurs
              THEN Fail(st, "Recursive")
              ELSE [st EXCEPT !.cache = [@ EXCEPT ![id] = Bound(bb)]]
         ELSE st

try_unify_type_variable_with_bindings(id, a, b, st) ==
    LET fb == find_binding(id, st.bindings, st.cache) IN
    IF fb.bound
    THEN try_unify_with_bindings(fb.typ, b, st)
    ELSE LET bb == follow_bindings_in_cache_and_map(b, st.bindings, st.cache) IN
         IF a # bb
         THEN LET result == occurs(id, fb.level, bb, st.bindings, st.cache) IN
              IF result.occurs
              THEN Fail(st, "Recursive")
              ELSE [st EXCEPT !.bindings = MapInsert(@, id, bb)]
         ELSE st

\* function types of any two parameter counts are unified
FunctionArgCountError_never(f1, f2) == FALSE

\* the mutant of the check that takes no account of varargs
FunctionArgCountError_strict(f1, f2) == Len(f1.parameters) # Len(f2.parameters)

FunctionArgCountError(f1, f2) ==
    /\ Len(f1.parameters) # Len(f2.parameters)
    /\ ~(f1.is_varargs /\ Len(f2.parameters) >= Len(f1.parameters))
    /\ ~(f2.is_varargs /\ Len(f1.parameters) >= Len(f2.parameters))

try_unify_with_bindings(t1, t2, st) ==
    CASE t1.tag = "Prim" /\ t2.tag = "Prim" /\ t1 = t2 -> st
      [] t1.tag = "UD" /\ t2.tag = "UD" /\ t1.id = t2.id -> st
      [] t1.tag = "Var" ->
            try_unify_type_variable_with_bindings(t1.id, t1, t2, st)
      [] t1.tag # "Var" /\ t2.tag = "Var" ->
            try_unify_type_variable_with_bindings(t2.id, t2, t1, st)
      [] t1.tag = "Fn" /\ t2.tag = "Fn" ->
            IF FunctionArgCountError(t1, t2)
            THEN Fail(st, "ArgCount")
            ELSE LET s1 == UnifyZip(t1.parameters, t2.parameters, 1, st)
                     s2 == IF s1.err # "" THEN s1
                           ELSE try_unify_with_bindings(t1.return_type, t2.return_type, s1)
                 IN IF s2.err # "" THEN s2
                    ELSE try_unify_with_bindings(t1.environment, t2.environment, s2)
      [] t1.tag = "App" /\ t2.tag = "App" ->
            IF Len(t1.args) # Len(t2.args)
            THEN Fail(st, "Arity")
            ELSE LET s1 == try_unify_with_bindings(t1.con, t2.con, st)
                 IN UnifyZip(t1.args, t2.args, 1, s1)
      [] t1.tag = "Ref" /\ t2.tag = "Ref" ->
            try_unify_type_variable_with_bindings(t1.id, t1, t2, st)
      [] OTHER -> Fail(st, "Mismatch")

\* try_unify: a fresh accumulator; on error only the message is returned
try_unify(t1, t2, cache) ==
    try_unify_with_bindings(t1, t2, UnifyState(UnificationBindings_empty, cache))

perform_type_bindings(map, cache) ==
    [id \in DOMAIN cache |-> IF id \in DOMAIN map THEN Bound(map[id]) ELSE cache[id]]

RECURSIVE PerformLevels(_, _, _)
PerformLevels(level_bindings, i, cache) ==
    IF i > Len(level_bindings) THEN cache
    ELSE LET id == level_bindings[i][1]
             level == level_bindings[i][2]
         IN PerformLevels(level_bindings, i + 1,
                IF cache[id].bound THEN cache
                ELSE [cache EXCEPT ![id] = Unbound(Min(level, cache[id].level))])

UnificationBindings_perform(ub, cache) ==
    PerformLevels(ub.level_bindings, 1, perform_type_bindings(ub.bindings, cache))

(***************************************************************************)
(* Substitution, free variables, generalisation                            *)
(***************************************************************************)
RECURSIVE bind_typevars(_, _, _)
RECURSIVE bind_typevar(_, _, _, _)

\* bind_typevar that leaves the lifetime of a Ref as it is
bind_typevar_keep_lifetime(id, map, is_ref, cache) ==
    IF is_ref THEN Ref(id)
    ELSE IF id \in DOMAIN map THEN map[id]
    ELSE IF cache[id].bound THEN bind_typevars(cache[id].typ, map, cache)
    ELSE TypeVariable(id)

bind_typevar(id, map, is_ref, cache) ==
    IF id \in DOMAIN map THEN map[id]
    ELSE IF cache[id].bound THEN bind_typevars(cache[id].typ, map, cache)
    ELSE IF is_ref THEN Ref(id) ELSE TypeVariable(id)

bind_typevars(typ, map, cache) ==
    CASE typ.tag \in {"Prim", "UD"} -> typ
      [] typ.tag = "Var" -> bind_typevar(typ.id, map, FALSE, cache)
      [] typ.tag = "Fn" ->
            Function([i \in DOMAIN typ.parameters |->
                          bind_typevars(typ.parameters[i], map, cache)],
                     bind_typevars(typ.return_type, map, cache),
                     bind_typevars(typ.environment, map, cache),
                     typ.is_varargs)
      [] typ.tag = "Ref" ->
            \* a lifetime bound to Ref(l) or TypeVariable(l) yields Ref(l)
            LET t == bind_typevar(typ.id, map, TRUE, cache) IN Ref(t.id)
      [] typ.tag = "App" ->
            TypeApplication(bind_typevars(typ.con, map, cache),
                            [i \in DOMAIN typ.args |-> bind_typevars(typ.args[i], map, cache)])

level_is_polymorphic(level, cur) == level > cur

RECURSIVE find_all_typevars(_, _, _, _)
RECURSIVE find_typevars_in_typevar_binding(_, _, _, _)
RECURSIVE FindAllIn(_, _, _, _, _)

find_typevars_in_typevar_binding(id, polymorphic_only, cache, cur) ==
    IF cache[id].bound
    THEN find_all_typevars(cache[id].typ, polymorphic_only, cache, cur)
    ELSE IF level_is_polymorphic(cache[id].level, cur) \/ ~polymorphic_only
         THEN <<id>> ELSE <<>>

\* the concatenation of find_all_typevars over typs[i..]
FindAllIn(typs, i, polymorphic_only, cache, cur) ==
    IF i > Len(typs) THEN <<>>
    ELSE find_all_typevars(typs[i], polymorphic_only, cache, cur)
         \o FindAllIn(typs, i + 1, polymorphic_only, cache, cur)

find_all_typevars(typ, polymorphic_only, cache, cur) ==
    CASE typ.tag \in {"Prim", "UD"} -> <<>>
      [] typ.tag = "Var" ->
            find_typevars_in_typevar_binding(typ.id, polymorphic_only, cache, cur)
      [] typ.tag = "Fn" ->
            FindAllIn(typ.parameters, 1, polymorphic_only, cache, cur)
            \o find_all_typevars(typ.environment, polymorphic_only, cache, cur)
            \o find_all_typevars(typ.return_type, polymorphic_only, cache, cur)
      [] typ.tag = "App" ->
            find_all_typevars(typ.con, polymorphic_only, cache, cur)
            \o FindAllIn(typ.args, 1, polymorphic_only, cache, cur)
      [] typ.tag = "Ref" ->
            find_typevars_in_typevar_binding(typ.id, polymorphic_only, cache, cur)

Range(seq) == {seq[i] : i \in DOMAIN seq}

RECURSIVE SortedSeq(_)
SortedSeq(S) ==
    IF S = {} THEN <<>>
    ELSE LET m == CHOOSE x \in S : \A y \in S : x <= y
         IN <<m>> \o SortedSeq(S \ {m})

MonoType(typ) == [poly |-> FALSE, typevars |-> <<>>, typ |-> typ]
PolyType(typevars, typ) == [poly |-> TRUE, typevars |-> typevars, typ |-> typ]

generalize(typ, cache, cur) ==
    LET typevars == find_all_typevars(typ, TRUE, cache, cur) IN
    IF typevars = <<>> THEN MonoType(typ)
    ELSE PolyType(SortedSeq(Range(typevars)), typ)

(***************************************************************************)
(* Instantiation                                                           *)
(***************************************************************************)
\* cache.next_type_variable_id(level): push an unbound variable
next_type_variable_id(cache, cur) ==
    [id |-> Len(cache) + 1, cache |-> Append(cache, Unbound(cur))]

EmptyIdMap == [x \in {} |-> 0]

\* for var in typevars { typevars_to_replace.insert(var, next_type_variable_id(cache)) }
RECURSIVE InsertFresh(_, _, _, _, _)
InsertFresh(typevars, i, map, cache, cur) ==
    IF i > Len(typevars) THEN [map |-> map, cache |-> cache]
    ELSE LET n == next_type_variable_id(cache, cur) IN
         InsertFresh(typevars, i + 1, MapInsert(map, typevars[i], n.id), n.cache, cur)

\* for var in .. { typevars_to_replace.entry(var).or_insert_with(|| next_type_variable_id(cache)) }
RECURSIVE EntryFresh(_, _, _, _, _)
EntryFresh(typevars, i, map, cache, cur) ==
    IF i > Len(typevars) THEN [map |-> map, cache |-> cache]
    ELSE IF typevars[i] \in DOMAIN map
         THEN EntryFresh(typevars, i + 1, map, cache, cur)
         ELSE LET n == next_type_variable_id(cache, cur) IN
              EntryFresh(typevars, i + 1, MapInsert(map, typevars[i], n.id), n.cache, cur)

replace_typevars(typ, typevars_to_replace, cache) ==
    bind_typevars(typ,
                  [k \in DOMAIN typevars_to_replace |-> TypeVariable(typevars_to_replace[k])],
                  cache)

TraitConstraint(trait_id, args) == [trait_id |-> trait_id, args |-> args]

RECURSIVE find_all_typevars_in_traits(_, _, _, _)
find_all_typevars_in_traits(traits, i, cache, cur) ==
    IF i > Len(traits) THEN <<>>
    ELSE FindAllIn(traits[i].args, 1, TRUE, cache, cur)
         \o find_all_typevars_in_traits(traits, i + 1, cache, cur)

\* GeneralizedType::instantiate(&self, constraints, cache)
instantiate(self, constraints, cache, cur) ==
    IF ~self.poly
    THEN [typ |-> self.typ, constraints |-> constraints, bindings |-> EmptyMap,
          cache |-> cache]
    ELSE LET s1 == InsertFresh(self.typevars, 1, EmptyIdMap, cache, cur)
             typ == replace_typevars(self.typ, s1.map, s1.cache)
             s2 == EntryFresh(find_all_typevars_in_traits(constraints, 1, s1.cache, cur),
                              1, s1.map, s1.cache, cur)
         IN [typ |-> typ,
             constraints |->
                 [i \in DOMAIN constraints |->
                     TraitConstraint(constraints[i].trait_id,
                         [j \in DOMAIN constraints[i].args |->
                             replace_typevars(constraints[i].args[j], s2.map, s2.cache)])],
             bindings |-> [k \in DOMAIN s2.map |-> TypeVariable(s2.map[k])],
             cache |-> s2.cache]

(***************************************************************************)
(* The program inference walks: the first module and a module it imports.  *)
(* Name resolution has filled in the definition of every pattern; the      *)
(* definition a variable occurrence refers to is an input (refs).          *)
(*   module 1:  import M2;  a = mut <var 5>;                               *)
(*              f = fn x -> (b = <var 27>; <var 10>);                      *)
(*              <var 12> <literal>;  <var 22> := <literal>                 *)
(*   module 2:  g = <literal>;  h = <var 20>                               *)
(***************************************************************************)
AstNode(kind, children, patterns, defines, module) ==
    [kind |-> kind, children |-> children, patterns |-> patterns,
     defines |-> defines, module |-> module]

NoDefinition == 0

Ast ==
    << AstNode("Sequence", <<2, 3, 6, 11, 21>>, <<>>, NoDefinition, 1),
       AstNode("Import", <<>>, <<>>, NoDefinition, 1),
       AstNode("Definition", <<5>>, <<4>>, NoDefinition, 1),
       AstNode("Pattern", <<>>, <<>>, 1, 1),
       AstNode("Variable", <<>>, <<>>, NoDefinition, 1),
       AstNode("Definition", <<8>>, <<7>>, NoDefinition, 1),
       AstNode("Pattern", <<>>, <<>>, 2, 1),
       AstNode("Lambda", <<24>>, <<9>>, NoDefinition, 1),
       AstNode("Pattern", <<>>, <<>>, 5, 1),
       AstNode("Variable", <<>>, <<>>, NoDefinition, 1),
       AstNode("FunctionCall", <<12, 13>>, <<>>, NoDefinition, 1),
       AstNode("Variable", <<>>, <<>>, NoDefinition, 1),
       AstNode("Literal", <<>>, <<>>, NoDefinition, 1),
       AstNode("Sequence", <<15, 18>>, <<>>, NoDefinition, 2),
       AstNode("Definition", <<17>>, <<16>>, NoDefinition, 2),
       AstNode("Pattern", <<>>, <<>>, 3, 2),
       AstNode("Literal", <<>>, <<>>, NoDefinition, 2),
       AstNode("Definition", <<20>>, <<19>>, NoDefinition, 2),
       AstNode("Pattern", <<>>, <<>>, 4, 2),
       AstNode("Variable", <<>>, <<>>, NoDefinition, 2),
       AstNode("Assignment", <<22, 23>>, <<>>, NoDefinition, 1),
       AstNode("Variable", <<>>, <<>>, NoDefinition, 1),
       AstNode("Literal", <<>>, <<>>, NoDefinition, 1),
       AstNode("Sequence", <<25, 10>>, <<>>, NoDefinition, 1),
       AstNode("Definition", <<27>>, <<26>>, NoDefinition, 1),
       AstNode("Pattern", <<>>, <<>>, 6, 1),
       AstNode("Variable", <<>>, <<>>, NoDefinition, 1) >>

Nodes == DOMAIN Ast
RootNode == CHOOSE n \in Nodes : Ast[n].module = 1 /\ \A m \in Nodes : n \notin Range(Ast[m].children)
VariableNodes == {n \in Nodes : Ast[n].kind = "Variable"}
DefinitionIds == {Ast[n].defines : n \in Nodes} \ {NoDefinition}

\* cache.definition_infos[d].definition: the ast::Definition binding d, if any
\* (a lambda parameter has none to infer)
DefinitionNodes(d) ==
    {m \in Nodes : Ast[m].kind = "Definition"
                   /\ \E i \in DOMAIN Ast[m].patterns : Ast[Ast[m].patterns[i]].defines = d}

\* the definitions in scope of a variable occurrence: those of its module and
\* of the modules it imports, and the parameter of the lambda around it
Programs ==
    { r \in [VariableNodes -> DefinitionIds] :
        /\ r[5] \in {1, 2, 3, 4}
        /\ r[10] \in {1, 3, 4, 5}
        /\ r[12] \in {2, 3, 4}
        /\ r[20] \in {3, 4}
        /\ r[22] \in {1, 2, 3}
        /\ r[27] \in {3, 5, 6} }

\* cache[d].mutable, filled in by name resolution: only a is declared mut
InferMutable(d) == d = 1

\* cache[d].required_traits: f requires one trait of its callers
InferRequiredTraits(d) == IF d = 2 THEN <<1>> ELSE <<>>

Frame(node, pc, previous_level) ==
    [node |-> node, pc |-> pc, previous_level |-> previous_level]

NoInference ==
    /\ refs = [n \in {} |-> NoDefinition]
    /\ typed = [n \in {} |-> FALSE]
    /\ info_typ = [d \in {} |-> FALSE]
    /\ stack = <<>>

\* Context::new, with no required impls recorded
Context_new ==
    /\ monomorphisation_bindings = <<>>
    /\ definitions = EmptyMap
    /\ types = EmptyMap
    /\ direct_impl_mappings = <<EmptyIdMap>>
    /\ indirect_impl_mappings = <<EmptyIdMap>>
    /\ direct_given_impl_mappings = <<EmptyIdMap>>
    /\ indirect_given_impl_mappings = <<EmptyIdMap>>
    /\ next_id = 0
    /\ requests = <<>>

NoMonomorphisation == Context_new /\ required_impls = EmptyIdMap

(***************************************************************************)
(* Specification Spec: callers of the unifier.                             *)
(*   unify                        - try_unify, then commit or print        *)
(*   try_unify                    - speculative, fresh accumulator         *)
(*   try_unify_with_bindings      - speculative, extends the accumulator   *)
(*   UnificationBindings::perform - commit the accumulator                 *)
(***************************************************************************)
MaxPerforms == 1    \* accumulators committed in one behaviour
MaxPairs == 2       \* pairs unified into one accumulator

TypeVariableIds == {1, 2, 3}
LifetimeIds == {4, 5}
Ids == TypeVariableIds \cup LifetimeIds

V1 == TypeVariable(1)
V2 == TypeVariable(2)
V3 == TypeVariable(3)

\* The types handed to the unifier
UnifyTypes ==
    { IntType, V1, V2, V3,
      Function(<<V1>>, IntType, V3, FALSE),
      Function(<<V2>>, V3, UnitType, TRUE),
      Function(<<IntType, V1>>, V2, UnitType, FALSE),
      TypeApplication(UserDefined(1), <<V1>>),
      TypeApplication(UserDefined(1), <<V2, IntType>>),
      TypeApplication(Ref(4), <<V2>>),
      TypeApplication(Ref(5), <<IntType>>) }

\* The types of the further pairs unified into an accumulator
ExtendTypes ==
    { IntType, V1, V2, V3, Function(<<V1>>, IntType, V3, FALSE),
      TypeApplication(UserDefined(1), <<V2, IntType>>) }

\* V1 and lifetime 4 belong to the enclosing scope (level 1); the others were
\* created while inferring the right-hand side of a definition of level 2.
InitTypeBindings ==
    [id \in Ids |-> IF id \in {1, 4} THEN Unbound(1) ELSE Unbound(2)]

\* The last call: its arguments, the cache and the accumulator it was given,
\* and what it returned (an accumulator, or a GeneralizedType)
Call(op, t1, t2, err, pairs, cache_before, bindings_before, result) ==
    [op |-> op, t1 |-> t1, t2 |-> t2, err |-> err, pairs |-> pairs,
     cache_before |-> cache_before, bindings_before |-> bindings_before,
     result |-> result]

NoCall(cache) ==
    Call("none", UnitType, UnitType, "", 0, cache, UnificationBindings_empty,
         UnificationBindings_empty)

Accumulator(st) == [bindings |-> st.bindings, level_bindings |-> st.level_bindings]

Speculative == call.op \in {"try_unify", "try_unify_with_bindings"}

Init ==
    /\ type_bindings = InitTypeBindings
    /\ bindings = UnificationBindings_empty
    /\ call = NoCall(InitTypeBindings)
    /\ performs = 0
    /\ current_level = 1
    /\ NoInference
    /\ NoMonomorphisation

\* try_unify(t1, t2, location, cache)
TryUnify(t1, t2) ==
    LET st == try_unify(t1, t2, type_bindings)
        result == IF st.err = "" THEN Accumulator(st) ELSE UnificationBindings_empty
    IN
    /\ call.op = "none"
    /\ type_bindings' = st.cache
    /\ bindings' = result
    /\ call' = Call("try_unify", t1, t2, st.err, 1, type_bindings,
                    UnificationBindings_empty, result)
    /\ UNCHANGED <<performs, current_level, infer_vars, mono_vars>>

\* try_unify_with_bindings(t1, t2, &mut bindings, location, cache) on the
\* accumulator of the preceding successful call
TryUnifyWithBindings(t1, t2) ==
    LET st == try_unify_with_bindings(t1, t2, UnifyState(bindings, type_bindings)) IN
    /\ Speculative
    /\ call.err = ""
    /\ call.pairs < MaxPairs
    /\ type_bindings' = st.cache
    /\ bindings' = Accumulator(st)
    /\ call' = Call("try_unify_with_bindings", t1, t2, st.err, call.pairs + 1,
                    type_bindings, bindings, Accumulator(st))
    /\ UNCHANGED <<performs, current_level, infer_vars, mono_vars>>

\* bindings.perform(cache) on the result of a successful call
Perform ==
    /\ Speculative
    /\ call.err = ""
    /\ performs < MaxPerforms
    /\ type_bindings' = UnificationBindings_perform(bindings, type_bindings)
    /\ bindings' = UnificationBindings_empty
    /\ call' = [call EXCEPT !.op = "perform", !.cache_before = type_bindings,
                            !.bindings_before = bindings, !.result = bindings]
    /\ performs' = performs + 1
    /\ UNCHANGED <<current_level, infer_vars, mono_vars>>

\* unify(t1, t2, location, cache) = perform_bindings_or_print_error(try_unify(..))
Unify(t1, t2) ==
    LET st == try_unify(t1, t2, type_bindings)
        result == IF st.err = "" THEN Accumulator(st) ELSE UnificationBindings_empty
    IN
    /\ call.op = "none"
    /\ performs < MaxPerforms
    /\ type_bindings' = IF st.err = ""
                        THEN UnificationBindings_perform(result, st.cache)
                        ELSE st.cache
    /\ bindings' = UnificationBindings_empty
    /\ call' = Call("unify", t1, t2, st.err, 1, type_bindings,
                    UnificationBindings_empty, result)
    /\ performs' = performs + 1
    /\ UNCHANGED <<current_level, infer_vars, mono_vars>>

\* generalize(typ, cache), called by bind_irrefutable_pattern for the pattern
\* of the definition whose right-hand side has just been inferred
Generalize(typ) ==
    /\ call.op = "none"
    /\ call' = Call("generalize", typ, UnitType, "", 0, type_bindings,
                    UnificationBindings_empty,
                    generalize(typ, type_bindings, current_level))
    /\ UNCHANGED <<type_bindings, bindings, performs, current_level, infer_vars, mono_vars>>

\* the caller is done with the result of the last call (a speculative
\* result is dropped)
Discard ==
    /\ call.op # "none"
    /\ call' = NoCall(type_bindings)
    /\ bindings' = UnificationBindings_empty
    /\ UNCHANGED <<type_bindings, performs, current_level, infer_vars, mono_vars>>

Next ==
    \/ \E t1 \in UnifyTypes, t2 \in UnifyTypes : TryUnify(t1, t2)
    \/ \E t1 \in ExtendTypes, t2 \in ExtendTypes : TryUnifyWithBindings(t1, t2)
    \/ Perform
    \/ \E t1 \in UnifyTypes, t2 \in UnifyTypes : Unify(t1, t2)
    \/ \E typ \in UnifyTypes : Generalize(typ)
    \/ Discard

Spec == Init /\ [][Next]_vars

(***************************************************************************)
(* Properties of the unifier                                               *)
(***************************************************************************)
UnifierOps == {"try_unify", "try_unify_with_bindings", "unify"}

\* The type variable ids reached from typ through the bindings of map and
\* cache; the bindings of the ids in seen are not followed.
RECURSIVE IdsIn(_, _, _, _)
IdsIn(typ, map, cache, seen) ==
    CASE typ.tag \in {"Prim", "UD"} -> {}
      [] typ.tag \in {"Var", "Ref"} ->
            LET b == find_binding(typ.id, map, cache) IN
            IF b.bound /\ typ.id \notin seen
            THEN {typ.id} \cup IdsIn(b.typ, map, cache, seen \cup {typ.id})
            ELSE {typ.id}
      [] typ.tag = "Fn" ->
            UNION {IdsIn(typ.parameters[i], map, cache, seen) : i \in DOMAIN typ.parameters}
            \cup IdsIn(typ.return_type, map, cache, seen)
            \cup IdsIn(typ.environment, map, cache, seen)
      [] typ.tag = "App" ->
            IdsIn(typ.con, map, cache, seen)
            \cup UNION {IdsIn(typ.args[i], map, cache, seen) : i \in DOMAIN typ.args}

\* typ, after following bindings, is a term that properly contains the variable a
ProperlyContains(typ, a, map, cache) ==
    /\ follow_bindings_in_cache_and_map(typ, map, cache) # TypeVariable(a)
    /\ a \in IdsIn(typ, map, cache, {})

\* the last call unified the unbound variable a with a term properly containing it
OccursCase(a) ==
    LET map == call.bindings_before.bindings
        cache == call.cache_before
    IN /\ call.op \in UnifierOps
       /\ ~find_binding(a, map, cache).bound
       /\ \/ call.t1 = TypeVariable(a) /\ ProperlyContains(call.t2, a, map, cache)
          \/ call.t2 = TypeVariable(a) /\ ProperlyContains(call.t1, a, map, cache)

\* no variable is bound, in the accumulator or the cache, to a term containing it
NoRecursiveBinding ==
    \A id \in DOMAIN type_bindings :
        LET b == find_binding(id, bindings.bindings, type_bindings) IN
        b.bound => id \notin IdsIn(b.typ, bindings.bindings, type_bindings, {id})

\* C1: unifying an unbound type variable a, in either argument order, with a
\* type that after following the accumulator and the cache properly contains
\* a fails with the recursive-type error and binds a neither in the
\* accumulator nor in the cache; no variable is ever bound to a term that
\* contains it.
C1_OccursCheck ==
    /\ \A a \in TypeVariableIds :
          OccursCase(a) =>
              /\ call.err = "Recursive"
              /\ a \notin DOMAIN bindings.bindings
              /\ ~type_bindings[a].bound
    /\ NoRecursiveBinding

\* C1 witness: the variable occurs in the other side only through a binding
\* held in the accumulator, and the call was refused
C1_Witness ==
    \E a \in TypeVariableIds :
        /\ OccursCase(a)
        /\ call.op = "try_unify_with_bindings"
        /\ call.err = "Recursive"
        /\ ~ProperlyContains(call.t1, a, EmptyMap, call.cache_before)
        /\ ~ProperlyContains(call.t2, a, EmptyMap, call.cache_before)

\* The term typ stands for under the bindings of map on top of those of cache
RECURSIVE FullSubst(_, _, _)
FullSubst(typ, map, cache) ==
    CASE typ.tag \in {"Prim", "UD"} -> typ
      [] typ.tag \in {"Var", "Ref"} ->
            LET b == find_binding(typ.id, map, cache) IN
            IF b.bound THEN FullSubst(b.typ, map, cache) ELSE typ
      [] typ.tag = "Fn" ->
            Function([i \in DOMAIN typ.parameters |->
                          FullSubst(typ.parameters[i], map, cache)],
                     FullSubst(typ.return_type, map, cache),
                     FullSubst(typ.environment, map, cache),
                     typ.is_varargs)
      [] typ.tag = "App" ->
            TypeApplication(FullSubst(typ.con, map, cache),
                            [i \in DOMAIN typ.args |-> FullSubst(typ.args[i], map, cache)])

\* s1 and s2 are the same term, except that two function types need only
\* agree on their leading parameters when the one with fewer parameters is
\* varargs, and their varargs flags are not compared
RECURSIVE Agree(_, _)
Agree(s1, s2) ==
    IF s1.tag # s2.tag THEN FALSE
    ELSE CASE s1.tag = "Fn" ->
                LET n1 == Len(s1.parameters)
                    n2 == Len(s2.parameters)
                IN /\ \/ n1 = n2
                      \/ s1.is_varargs /\ n1 <= n2
                      \/ s2.is_varargs /\ n2 <= n1
                   /\ \A i \in 1..Min(n1, n2) : Agree(s1.parameters[i], s2.parameters[i])
                   /\ Agree(s1.return_type, s2.return_type)
                   /\ Agree(s1.environment, s2.environment)
           [] s1.tag = "App" ->
                /\ Len(s1.args) = Len(s2.args)
                /\ Agree(s1.con, s2.con)
                /\ \A i \in DOMAIN s1.args : Agree(s1.args[i], s2.args[i])
           [] OTHER -> s1 = s2

RECURSIVE HasVarargs(_)
HasVarargs(s) ==
    CASE s.tag = "Fn" ->
            \/ s.is_varargs
            \/ \E i \in DOMAIN s.parameters : HasVarargs(s.parameters[i])
            \/ HasVarargs(s.return_type)
            \/ HasVarargs(s.environment)
      [] s.tag = "App" ->
            HasVarargs(s.con) \/ \E i \in DOMAIN s.args : HasVarargs(s.args[i])
      [] OTHER -> FALSE

Unified == call.op \in {"try_unify", "unify"} /\ call.err = ""
Subst1 == FullSubst(call.t1, call.result.bindings, call.cache_before)
Subst2 == FullSubst(call.t2, call.result.bindings, call.cache_before)

\* C2: whenever try_unify(T1, T2) succeeds with bindings B, substituting B on
\* top of the cache into T1 and into T2 yields structurally identical terms,
\* for every pair of types, varargs functions and references included.
C2_Soundness == Unified => Subst1 = Subst2

\* C2, amended: the substituted terms are identical except where a function
\* type meets a function type with the varargs flag: there the one with
\* fewer parameters is varargs, the leading parameters, the return types and
\* the environments agree, and the flags are not compared.
C2_SoundnessUpToVarargs ==
    Unified =>
        /\ Agree(Subst1, Subst2)
        /\ ~HasVarargs(Subst1) /\ ~HasVarargs(Subst2) => Subst1 = Subst2

\* C2 witness: try_unify succeeded on two function types of different
\* parameter counts
C2_Witness ==
    /\ call.op = "try_unify"
    /\ call.err = ""
    /\ call.t1.tag = "Fn"
    /\ call.t2.tag = "Fn"
    /\ Len(call.t1.parameters) # Len(call.t2.parameters)
    /\ call.result.bindings # EmptyMap

Committed == call.op \in {"unify", "perform"} /\ call.err = ""

\* C3: when a committed unification has bound an unbound variable a of level
\* L to a type T, every variable still unbound and reachable in T has level
\* min(its level before, L); no committed unification raises a level.
C3_LevelLowering ==
    Committed =>
        /\ \A a \in DOMAIN call.result.bindings :
              ~call.cache_before[a].bound =>
                  \A v \in IdsIn(call.result.bindings[a], EmptyMap, type_bindings, {}) :
                      ~type_bindings[v].bound =>
                          type_bindings[v].level =
                              Min(call.cache_before[v].level, call.cache_before[a].level)
        /\ \A id \in DOMAIN type_bindings :
              ~type_bindings[id].bound /\ ~call.cache_before[id].bound =>
                  type_bindings[id].level <= call.cache_before[id].level

EnclosingIds ==
    {id \in DOMAIN InitTypeBindings :
        ~level_is_polymorphic(InitTypeBindings[id].level, current_level)}

\* C5: after the unifications of the right-hand side no quantifier of
\* generalize is a variable of the enclosing scope or a variable unified
\* with one.
C5_Generalisation ==
    call.op = "generalize" =>
        \A i \in DOMAIN call.result.typevars :
            \A e \in EnclosingIds :
                call.result.typevars[i] \notin
                    IdsIn(TypeVariable(e), EmptyMap, type_bindings, {})

(***************************************************************************)
(* Specification SpecInst: variable occurrences instantiate the type of    *)
(* the definition they refer to.                                           *)
(***************************************************************************)
MaxTypeVariables == 7   \* instantiation goes on while the cache holds fewer variables

\* caches the inference of earlier definitions left behind
InstCaches ==
    { InitTypeBindings,
      [InitTypeBindings EXCEPT ![3] = Bound(Function(<<V2>>, IntType, UnitType, FALSE))],
      [InitTypeBindings EXCEPT ![1] = Bound(TypeApplication(Ref(5), <<V3>>))] }

\* the types of the definitions referred to
InstBodies ==
    { IntType, V2, Function(<<V2>>, V3, UnitType, FALSE),
      Function(<<V1, V2>>, V2, V3, FALSE),
      TypeApplication(Ref(5), <<V2>>) }

\* a definition is left a monotype, or was generalized at level 0 or 1
InstSchemes(cache) ==
    {MonoType(b) : b \in InstBodies}
    \cup {generalize(b, cache, 0) : b \in InstBodies}
    \cup {generalize(b, cache, 1) : b \in InstBodies}

\* the constraints to_trait_constraints builds from the definition
InstConstraints ==
    { <<>>,
      <<TraitConstraint(1, <<V2>>)>>,
      <<TraitConstraint(1, <<V2, V3>>)>>,
      <<TraitConstraint(1, <<V1>>), TraitConstraint(2, <<TypeApplication(Ref(5), <<V3>>)>>)>> }

InitInst ==
    /\ type_bindings \in InstCaches
    /\ bindings = UnificationBindings_empty
    /\ call = NoCall(type_bindings)
    /\ performs = 0
    /\ current_level \in {1, 2}
    /\ NoInference
    /\ NoMonomorphisation

\* s.instantiate(constraints, cache) in the inference of a variable
Instantiate(self, constraints) ==
    LET r == instantiate(self, constraints, type_bindings, current_level) IN
    /\ call.op = "none"
    /\ Len(type_bindings) < MaxTypeVariables
    /\ type_bindings' = r.cache
    /\ call' = Call("instantiate", self, constraints, "", 0, type_bindings,
                    UnificationBindings_empty,
                    [typ |-> r.typ, constraints |-> r.constraints, bindings |-> r.bindings])
    /\ UNCHANGED <<bindings, performs, current_level, infer_vars, mono_vars>>

NextInst ==
    \/ \E self \in InstSchemes(type_bindings), constraints \in InstConstraints :
           Instantiate(self, constraints)
    \/ Discard

SpecInst == InitInst /\ [][NextInst]_vars

(***************************************************************************)
(* Properties of instantiation                                             *)
(***************************************************************************)
\* the type variable ids written in typ itself, no binding followed
RECURSIVE SyntacticIds(_)
SyntacticIds(typ) ==
    CASE typ.tag \in {"Prim", "UD"} -> {}
      [] typ.tag \in {"Var", "Ref"} -> {typ.id}
      [] typ.tag = "Fn" ->
            UNION {SyntacticIds(typ.parameters[i]) : i \in DOMAIN typ.parameters}
            \cup SyntacticIds(typ.return_type) \cup SyntacticIds(typ.environment)
      [] typ.tag = "App" ->
            SyntacticIds(typ.con) \cup UNION {SyntacticIds(typ.args[i]) : i \in DOMAIN typ.args}

\* typ with every variable that map sends some id to replaced by that id
RECURSIVE RenameBack(_, _)
RenameBack(typ, map) ==
    LET back(id) == IF \E k \in DOMAIN map : map[k].id = id
                    THEN CHOOSE k \in DOMAIN map : map[k].id = id
                    ELSE id
    IN CASE typ.tag \in {"Prim", "UD"} -> typ
         [] typ.tag = "Var" -> TypeVariable(back(typ.id))
         [] typ.tag = "Ref" -> Ref(back(typ.id))
         [] typ.tag = "Fn" ->
               Function([i \in DOMAIN typ.parameters |-> RenameBack(typ.parameters[i], map)],
                        RenameBack(typ.return_type, map),
                        RenameBack(typ.environment, map), typ.is_varargs)
         [] typ.tag = "App" ->
               TypeApplication(RenameBack(typ.con, map),
                               [i \in DOMAIN typ.args |-> RenameBack(typ.args[i], map)])

Instantiated == call.op = "instantiate"
Quantifiers == Range(call.t1.typevars)

\* C6: instantiating a polytype gives every quantifier its own fresh
\* variable, unbound at the current level and new to the cache; the returned
\* map sends each quantifier to it; in the body and in the constraint
\* arguments every occurrence of a quantifier is replaced by that same
\* variable and nothing else changes.  Instantiating a monotype returns the
\* type and the constraints unchanged with an empty map and allocates nothing.
C6_Instantiate ==
    Instantiated =>
        LET map == call.result.bindings
            old == call.cache_before
        IN IF call.t1.poly
           THEN /\ \A q \in Quantifiers :
                      /\ q \in DOMAIN map
                      /\ map[q].tag = "Var"
                      /\ map[q].id \notin DOMAIN old
                      /\ map[q].id \in DOMAIN type_bindings
                      /\ type_bindings[map[q].id] = Unbound(current_level)
                /\ \A q1 \in Quantifiers, q2 \in Quantifiers :
                      q1 # q2 => map[q1] # map[q2]
                /\ SyntacticIds(call.result.typ) \cap Quantifiers = {}
                /\ RenameBack(call.result.typ, map) = FullSubst(call.t1.typ, EmptyMap, old)
                /\ DOMAIN call.result.constraints = DOMAIN call.t2
                /\ \A i \in DOMAIN call.t2 :
                      /\ call.result.constraints[i].trait_id = call.t2[i].trait_id
                      /\ DOMAIN call.result.constraints[i].args = DOMAIN call.t2[i].args
                      /\ \A j \in DOMAIN call.t2[i].args :
                            LET arg == call.result.constraints[i].args[j] IN
                            /\ SyntacticIds(arg) \cap Quantifiers = {}
                            /\ RenameBack(arg, map)
                                   = FullSubst(call.t2[i].args[j], EmptyMap, old)
                /\ \A id \in DOMAIN old : type_bindings[id] = old[id]
           ELSE /\ call.result.typ = call.t1.typ
                /\ call.result.constraints = call.t2
                /\ map = EmptyMap
                /\ type_bindings = old

\* C6 witness: a polytype with two quantifiers, one of them the lifetime of a
\* reference, instantiated together with a constraint on a quantifier
C6_Witness ==
    /\ Instantiated
    /\ call.t1.poly
    /\ Len(call.t1.typevars) = 2
    /\ call.t1.typ.tag = "App"
    /\ call.t1.typ.con.tag = "Ref"
    /\ call.t1.typ.con.id \in Quantifiers
    /\ \E i \in DOMAIN call.t2 :
          \E j \in DOMAIN call.t2[i].args :
              SyntacticIds(call.t2[i].args[j]) \cap Quantifiers # {}

(***************************************************************************)
(* Specification SpecInfer: infer_ast on the first module.  A step is the  *)
(* part of one node's infer_impl between two nested calls of infer; infer  *)
(* fills the node's typ slot when infer_impl returns.                      *)
(***************************************************************************)
INITIAL_LEVEL == 1

\* ast::Definition.level, filled in by name resolution: b is defined in the
\* body of f, the others at the top level
DefinitionLevel(m) == IF m = 25 THEN INITIAL_LEVEL + 1 ELSE INITIAL_LEVEL

\* the level left behind by Definition::infer_impl is that of the pattern
RestoredLevel_pattern(frame) == DefinitionLevel(frame.node) - 1

\* CURRENT_LEVEL.store(previous_level)
RestoredLevel(frame) == frame.previous_level

Top == stack[Len(stack)]
TopIs(kind) == stack # <<>> /\ Ast[Top.node].kind = kind

\* infer(child, cache) from the frame on top
Descend(child) ==
    Append([stack EXCEPT ![Len(stack)].pc = @ + 1], Frame(child, 0, current_level))

\* infer_impl returned: ast.set_type(typ)
Return(done) ==
    /\ typed' = [n \in Nodes |-> typed[n] \/ n \in done]
    /\ stack' = SubSeq(stack, 1, Len(stack) - 1)

UnifierIdle ==
    /\ type_bindings = InitTypeBindings
    /\ bindings = UnificationBindings_empty
    /\ call = NoCall(InitTypeBindings)
    /\ performs = 0

InitInfer ==
    /\ UnifierIdle
    /\ current_level = INITIAL_LEVEL
    /\ refs \in Programs
    /\ typed = [n \in Nodes |-> FALSE]
    /\ info_typ = [d \in DefinitionIds |-> FALSE]
    /\ stack = <<Frame(RootNode, 0, INITIAL_LEVEL)>>
    /\ NoMonomorphisation

InferLiteral ==
    /\ TopIs("Literal")
    /\ Return({Top.node})
    /\ UNCHANGED <<type_bindings, bindings, call, performs, current_level, refs, info_typ, mono_vars>>

\* the type checker does not follow imports
InferImport ==
    /\ TopIs("Import")
    /\ Return({Top.node})
    /\ UNCHANGED <<type_bindings, bindings, call, performs, current_level, refs, info_typ, mono_vars>>

\* infer every statement in turn
InferSequence ==
    /\ TopIs("Sequence")
    /\ IF Top.pc < Len(Ast[Top.node].children)
       THEN /\ stack' = Descend(Ast[Top.node].children[Top.pc + 1])
            /\ UNCHANGED typed
       ELSE Return({Top.node})
    /\ UNCHANGED <<type_bindings, bindings, call, performs, current_level, refs, info_typ, mono_vars>>

\* infer the function, then the arguments, then unify
InferFunctionCall ==
    /\ TopIs("FunctionCall")
    /\ IF Top.pc < Len(Ast[Top.node].children)
       THEN /\ stack' = Descend(Ast[Top.node].children[Top.pc + 1])
            /\ UNCHANGED typed
       ELSE Return({Top.node})
    /\ UNCHANGED <<type_bindings, bindings, call, performs, current_level, refs, info_typ, mono_vars>>

\* bind_irrefutable_pattern on every parameter, then infer the body
InferLambda ==
    /\ TopIs("Lambda")
    /\ IF Top.pc = 0
       THEN /\ typed' = [n \in Nodes |-> typed[n] \/ n \in Range(Ast[Top.node].patterns)]
            /\ info_typ' = [d \in DefinitionIds |->
                               info_typ[d] \/ \E i \in DOMAIN Ast[Top.node].patterns :
                                                  Ast[Ast[Top.node].patterns[i]].defines = d]
            /\ stack' = Descend(Ast[Top.node].children[1])
       ELSE /\ Return({Top.node})
            /\ UNCHANGED info_typ
    /\ UNCHANGED <<type_bindings, bindings, call, performs, current_level, refs, mono_vars>>

\* a variable never delves into the definition it refers to
NeedsNestedInference_never(n) == FALSE

\* the definition's type is not known yet and there is a definition to infer
NeedsNestedInference(n) ==
    ~info_typ[refs[n]] /\ DefinitionNodes(refs[n]) # {}

\* look up the type of the definition; infer_nested_definition when it is
\* not there yet; instantiate
InferVariable ==
    /\ TopIs("Variable")
    /\ IF Top.pc = 0 /\ NeedsNestedInference(Top.node)
       THEN /\ info_typ' = [info_typ EXCEPT ![refs[Top.node]] = TRUE]
            /\ stack' = Descend(CHOOSE m \in DefinitionNodes(refs[Top.node]) : TRUE)
            /\ UNCHANGED typed
       ELSE /\ info_typ' = [info_typ EXCEPT ![refs[Top.node]] = TRUE]
            /\ Return({Top.node})
    /\ UNCHANGED <<type_bindings, bindings, call, performs, current_level, refs, mono_vars>>

\* what infer(self.expr) returned: the kind of the expression, whether a
\* lambda captures nothing, its type and its constraints
Rhs(kind, closure_environment_is_empty, t, traits) ==
    [kind |-> kind, closure_environment_is_empty |-> closure_environment_is_empty,
     t |-> t, traits |-> traits]
\* every expression is generalised
should_generalize_always(rhs) == TRUE

should_generalize(rhs) ==
    CASE rhs.kind = "Variable" -> TRUE
      [] rhs.kind = "Lambda" -> rhs.closure_environment_is_empty
      [] OTHER -> FALSE

\* the constraints infer returns for a leaf: an integer literal of unknown
\* kind is constrained by Int, a variable by the traits its definition
\* requires, each at the callsite of the node
INT_TRAIT == 0
ConstraintAt(trait_id, callsite) == [trait_id |-> trait_id, callsite |-> callsite]
infer_traits(n, r) ==
    CASE Ast[n].kind = "Literal" -> <<ConstraintAt(INT_TRAIT, n)>>
      [] Ast[n].kind = "Variable" ->
            [i \in DOMAIN InferRequiredTraits(r[n]) |->
                ConstraintAt(InferRequiredTraits(r[n])[i], n)]
      [] OTHER -> <<>>

\* the errors the walk has printed: none of the rules of this program
\* prints one
get_error_count == 0

\* what infer_impl of a node returned, and get_error_count() after it
InferResult(node, typ, traits, errors) ==
    [node |-> node, typ |-> typ, traits |-> traits, error_count |-> errors]

\* what Definition::infer_impl returned: the definitions its pattern bound
\* and the value of CURRENT_LEVEL while it bound them
DefinitionResult(node, traits, bound, level) ==
    [node |-> node, typ |-> UnitType, traits |-> traits, error_count |-> get_error_count,
     bound |-> bound, level |-> level]

\* the definitions the patterns of a node bind
BoundBy(node) == {Ast[Ast[node].patterns[i]].defines : i \in DOMAIN Ast[node].patterns}

\* the constraints left to the enclosing expression
ReturnedTraits(expr, r) ==
    IF should_generalize(Rhs(Ast[expr].kind, TRUE, UnitType, <<>>)) THEN <<>>
    ELSE infer_traits(expr, r)

\* the type slot of a Definition is never looked at
AlreadyInferred_never(node) == FALSE

\* self.typ.is_some()
AlreadyInferred(node) == typed[node]

\* ast::Definition: once only; the right-hand side at the definition's
\* level, then bind_irrefutable_pattern at the level below
InferDefinition ==
    /\ TopIs("Definition")
    /\ IF Top.pc = 0 /\ ~AlreadyInferred(Top.node)
       THEN /\ typed' = [typed EXCEPT ![Top.node] = TRUE]
            /\ current_level' = DefinitionLevel(Top.node)
            /\ stack' = Append([stack EXCEPT ![Len(stack)] =
                                    Frame(Top.node, 1, current_level)],
                               Frame(Ast[Top.node].children[1], 0, current_level))
            /\ UNCHANGED <<info_typ, call>>
       ELSE IF Top.pc = 0
       THEN /\ Return({Top.node})
            /\ call' = Call("infer", UnitType, UnitType, "", 0, type_bindings, bindings,
                            DefinitionResult(Top.node, <<>>, {}, current_level))
            /\ UNCHANGED <<current_level, info_typ>>
       ELSE /\ Return({Top.node} \cup Range(Ast[Top.node].patterns))
            /\ info_typ' = [d \in DefinitionIds |-> info_typ[d] \/ d \in BoundBy(Top.node)]
            /\ call' = Call("infer", UnitType, UnitType, "", 0, type_bindings, bindings,
                            DefinitionResult(Top.node,
                                             ReturnedTraits(Ast[Top.node].children[1], refs),
                                             BoundBy(Top.node),
                                             DefinitionLevel(Top.node) - 1))
            /\ current_level' = RestoredLevel(Top)
    /\ UNCHANGED <<type_bindings, bindings, performs, refs, mono_vars>>

\* ast::Assignment: infer the left-hand side, then the right-hand side;
\* the result is unit with the constraints of both
InferAssignment ==
    /\ TopIs("Assignment")
    /\ IF Top.pc < Len(Ast[Top.node].children)
       THEN /\ stack' = Descend(Ast[Top.node].children[Top.pc + 1])
            /\ UNCHANGED <<typed, call>>
       ELSE /\ Return({Top.node})
            /\ call' = Call("infer", UnitType, UnitType, "", 0, type_bindings, bindings,
                            InferResult(Top.node, UnitType,
                                        infer_traits(Ast[Top.node].children[1], refs)
                                            \o infer_traits(Ast[Top.node].children[2], refs),
                                        get_error_count))
    /\ UNCHANGED <<type_bindings, bindings, performs, current_level, refs, info_typ, mono_vars>>

\* infer_ast after infer(ast, cache) has returned
InferAstDone ==
    /\ stack = <<>>
    /\ current_level = INITIAL_LEVEL
    /\ current_level' = INITIAL_LEVEL - 1
    /\ UNCHANGED <<type_bindings, bindings, call, performs, infer_vars, mono_vars>>

NextInfer ==
    \/ InferLiteral
    \/ InferImport
    \/ InferSequence
    \/ InferFunctionCall
    \/ InferLambda
    \/ InferVariable
    \/ InferDefinition
    \/ InferAssignment
    \/ InferAstDone

SpecInfer == InitInfer /\ [][NextInfer]_vars

InferenceFinished == stack = <<>> /\ current_level = INITIAL_LEVEL - 1

(***************************************************************************)
(* Properties of the inference walk                                        *)
(***************************************************************************)
\* a node, its patterns and everything below them
RECURSIVE Subtree(_)
Subtree(n) ==
    {n} \cup UNION {Subtree(Ast[n].children[i]) : i \in DOMAIN Ast[n].children}
        \cup UNION {Subtree(Ast[n].patterns[i]) : i \in DOMAIN Ast[n].patterns}

\* S together with the definitions the variable occurrences in it refer to,
\* transitively
RECURSIVE ReferredFrom(_)
ReferredFrom(S) ==
    LET more == S \cup UNION {Subtree(m) : m \in UNION {DefinitionNodes(refs[v]) :
                                                        v \in S \cap VariableNodes}}
    IN IF more = S THEN S ELSE ReferredFrom(more)

hir_Primitive(p) == [tag |-> "HPrim", p |-> p]
hir_Integer(kind) == [tag |-> "HPrim", p |-> "Integer", kind |-> kind]
hir_Function(parameters, return_type, is_varargs) ==
    [tag |-> "HFn", parameters |-> parameters, return_type |-> return_type,
     is_varargs |-> is_varargs]
hir_Tuple(fields) == [tag |-> "HTuple", fields |-> fields]
Panic == [tag |-> "Panic"]

DEFAULT_INTEGER_KIND_i64 == "I64"
DEFAULT_INTEGER_KIND == "I32"
UNBOUND_TYPE_i32 == IntType
UNBOUND_TYPE == UnitType
RECURSION_LIMIT == 500

Ok(typ) == [res |-> "Ok", typ |-> typ]
Err(id) == [res |-> "Err", id |-> id]
PanicResult == [res |-> "Panic"]

AnyPanic(typs) == \E i \in DOMAIN typs : typs[i].tag = "Panic"

\* the innermost map of monomorphisation_bindings that holds id; 0 if none
InnermostBinding(mb, id) ==
    IF \E i \in DOMAIN mb : id \in DOMAIN mb[i]
    THEN CHOOSE i \in DOMAIN mb :
            /\ id \in DOMAIN mb[i]
            /\ \A j \in DOMAIN mb : id \in DOMAIN mb[j] => j <= i
    ELSE 0

RECURSIVE Context_find_binding(_, _, _, _)

\* the match arms of find_binding on a binding found: a type variable or a
\* reference is followed, any other type is the answer
FollowBinding(binding, fuel, cache, mb) ==
    IF binding.tag \in {"Var", "Ref"}
    THEN Context_find_binding(binding.id, fuel, cache, mb)
    ELSE Ok(binding)

Context_find_binding(id, fuel, cache, mb) ==
    IF fuel = 0 THEN PanicResult
    ELSE IF cache[id].bound THEN FollowBinding(cache[id].typ, fuel - 1, cache, mb)
    ELSE IF InnermostBinding(mb, id) = 0 THEN Err(id)
    ELSE FollowBinding(mb[InnermostBinding(mb, id)][id], fuel - 1, cache, mb)

follow_bindings_shallow(typ, cache, mb) ==
    IF typ.tag = "Var" THEN Context_find_binding(typ.id, RECURSION_LIMIT, cache, mb)
    ELSE Ok(typ)

RECURSIVE follow_all_bindings_inner(_, _, _, _)

FollowFound(b, fuel, cache, mb) ==
    CASE b.res = "Ok" -> follow_all_bindings_inner(b.typ, fuel, cache, mb)
      [] b.res = "Err" -> TypeVariable(b.id)
      [] b.res = "Panic" -> Panic

FunctionOrPanic(parameters, return_type, environment, is_varargs) ==
    IF AnyPanic(parameters) \/ AnyPanic(<<return_type, environment>>) THEN Panic
    ELSE Function(parameters, return_type, environment, is_varargs)

TypeApplicationOrPanic(con, args) ==
    IF AnyPanic(<<con>>) \/ AnyPanic(args) THEN Panic ELSE TypeApplication(con, args)

follow_all_bindings_inner(typ, fuel, cache, mb) ==
    IF fuel = 0 THEN Panic
    ELSE CASE typ.tag = "Var" ->
                FollowFound(Context_find_binding(typ.id, fuel - 1, cache, mb),
                            fuel - 1, cache, mb)
           [] typ.tag \in {"Prim", "UD", "Ref"} -> typ
           [] typ.tag = "Fn" ->
                FunctionOrPanic(
                    [i \in DOMAIN typ.parameters |->
                        follow_all_bindings_inner(typ.parameters[i], fuel - 1, cache, mb)],
                    follow_all_bindings_inner(typ.return_type, fuel - 1, cache, mb),
                    follow_all_bindings_inner(typ.environment, fuel - 1, cache, mb),
                    typ.is_varargs)
           [] typ.tag = "App" ->
                TypeApplicationOrPanic(
                    follow_all_bindings_inner(typ.con, fuel - 1, cache, mb),
                    [i \in DOMAIN typ.args |->
                        follow_all_bindings_inner(typ.args[i], fuel - 1, cache, mb)])

follow_all_bindings(typ, cache, mb) ==
    follow_all_bindings_inner(typ, RECURSION_LIMIT, cache, mb)

RECURSIVE convert_integer_kind(_, _, _)

\* the match on the binding of an inferred integer kind
InferredKind(b, cache, mb) ==
    CASE b.res = "Err" -> DEFAULT_INTEGER_KIND
      [] b.res = "Ok" /\ b.typ.tag = "Prim" /\ b.typ.p = "IntegerType" ->
            convert_integer_kind(b.typ.kind, cache, mb)
      [] OTHER -> "Panic"

convert_integer_kind(kind, cache, mb) ==
    CASE kind.kind = "Unknown" -> DEFAULT_INTEGER_KIND
      [] kind.kind = "Inferred" ->
            InferredKind(Context_find_binding(kind.id, RECURSION_LIMIT, cache, mb),
                         cache, mb)
      [] OTHER -> kind.kind

(***************************************************************************)
(* cache.type_infos: the user-defined types of the program                 *)
(*   1  Pair a   = first: a, second: i32                                   *)
(*   2  Maybe a  = | Some a | None                                         *)
(*   3  Stream   = head: i32, next: unit -> Stream                         *)
(*   4  Void     = a union of no variants                                  *)
(*   5  Link a   = | End | Next (Ptr a)                                    *)
(*   6  Shape    = | Circle float | Rect i32 i32 | Dot bool                *)
(***************************************************************************)
Struct(args, fields) == [body |-> "Struct", args |-> args, fields |-> fields]
Union(args, variants) == [body |-> "Union", args |-> args, variants |-> variants]
PtrType == Primitive("Ptr")

TypeInfos ==
    <<Struct(<<3>>, <<TypeVariable(3), IntType>>),
      Union(<<3>>, << <<TypeVariable(3)>>, <<>> >>),
      Struct(<<>>, <<IntType, Function(<<UnitType>>, UserDefined(3), UnitType, FALSE)>>),
      Union(<<>>, <<>>),
      Union(<<3>>, << <<>>, <<TypeApplication(PtrType, <<TypeVariable(3)>>)>> >>),
      Union(<<>>, << <<Primitive("float")>>, <<IntType, IntType>>, <<BoolType>> >>)>>

\* the last index of x in args[1..n]
LastIndex(args, n, x) ==
    CHOOSE i \in 1..n : args[i] = x /\ \A j \in 1..n : args[j] = x => j <= i

type_application_bindings(info, typeargs) ==
    [x \in {info.args[i] : i \in 1..Min(Len(info.args), Len(typeargs))} |->
        typeargs[LastIndex(info.args, Min(Len(info.args), Len(typeargs)), x)]]

\* the fields of a struct or of a variant under the bindings of the application
BindFields(fields, tbindings, cache) ==
    [f \in DOMAIN fields |-> bind_typevars(fields[f], tbindings, cache)]

ptr_size == 8

\* the match of integer_bit_count on the converted kind; -1 for a panic
BitCount(kind) ==
    CASE kind \in {"I8", "U8"} -> 8
      [] kind \in {"I16", "U16"} -> 16
      [] kind \in {"I32", "U32"} -> 32
      [] kind \in {"I64", "U64"} -> 64
      [] kind \in {"Isz", "Usz"} -> ptr_size * 8
      [] OTHER -> -1

integer_bit_count(kind, cache, mb) == BitCount(convert_integer_kind(kind, cache, mb))

RECURSIVE size_of_type(_, _, _)
RECURSIVE SumSizes(_, _, _, _)
RECURSIVE find_largest_union_variant(_, _, _, _)

\* a size is -1 when computing it panics
AddSizes(a, b) == IF a < 0 \/ b < 0 THEN -1 ELSE a + b

\* the sum of size_of_type over typs[i..]
SumSizes(typs, i, cache, mb) ==
    IF i > Len(typs) THEN 0
    ELSE AddSizes(size_of_type(typs[i], cache, mb), SumSizes(typs, i + 1, cache, mb))

\* max_by_key keeps the last of several largest variants
LargestVariant(variants, sizes) ==
    IF \E v \in DOMAIN variants : sizes[v] < 0
    THEN [none |-> FALSE, panic |-> TRUE]
    ELSE [none |-> FALSE, panic |-> FALSE,
          variant |-> variants[CHOOSE v \in DOMAIN variants :
                          /\ \A w \in DOMAIN variants : sizes[w] <= sizes[v]
                          /\ \A w \in DOMAIN variants : sizes[w] = sizes[v] => w <= v]]

VariantSizes(variants, cache, mb) ==
    [v \in DOMAIN variants |-> SumSizes(variants[v], 1, cache, mb)]

\* over the variants with their type variables bound: [none], [panic] or [variant]
LargestBoundVariant(variants, cache, mb) ==
    IF variants = <<>> THEN [none |-> TRUE, panic |-> FALSE]
    ELSE LargestVariant(variants, VariantSizes(variants, cache, mb))

find_largest_union_variant(variants, tbindings, cache, mb) ==
    LargestBoundVariant([v \in DOMAIN variants |-> BindFields(variants[v], tbindings, cache)],
                        cache, mb)

\* the mutant of the size of a union that leaves the tag out
UnionSize_untagged(largest, cache, mb) ==
    IF largest.panic THEN -1
    ELSE IF largest.none THEN 0
    ELSE SumSizes(largest.variant, 1, cache, mb)

\* the size of a union from its largest variant
UnionSize(largest, cache, mb) ==
    IF largest.panic THEN -1
    ELSE IF largest.none THEN 0
    ELSE AddSizes(SumSizes(largest.variant, 1, cache, mb), 1)

size_of_union_type(info, variants, args, cache, mb) ==
    UnionSize(find_largest_union_variant(variants, type_application_bindings(info, args),
                                         cache, mb),
              cache, mb)

size_of_struct_type(info, fields, args, cache, mb) ==
    SumSizes(BindFields(fields, type_application_bindings(info, args), cache), 1, cache, mb)

size_of_user_defined_type(id, args, cache, mb) ==
    IF Len(TypeInfos[id].args) # Len(args) THEN -1
    ELSE IF TypeInfos[id].body = "Union"
    THEN size_of_union_type(TypeInfos[id], TypeInfos[id].variants, args, cache, mb)
    ELSE size_of_struct_type(TypeInfos[id], TypeInfos[id].fields, args, cache, mb)

\* bits to bytes
ByteCount(bits) == IF bits < 0 THEN -1 ELSE bits \div 8

SizeOfBinding(b, cache, mb) ==
    CASE b.res = "Ok" -> size_of_type(b.typ, cache, mb)
      [] b.res = "Err" -> size_of_type(UNBOUND_TYPE, cache, mb)
      [] b.res = "Panic" -> -1

size_of_type(typ, cache, mb) ==
    CASE typ.tag = "Prim" /\ typ.p = "IntegerType" ->
            ByteCount(integer_bit_count(typ.kind, cache, mb))
      [] typ.tag = "Prim" /\ typ.p = "float" -> 8
      [] typ.tag = "Prim" /\ typ.p \in {"char", "bool", "unit"} -> 1
      [] typ.tag = "Prim" /\ typ.p = "Ptr" -> ptr_size
      [] typ.tag = "Fn" -> ptr_size
      [] typ.tag = "Var" ->
            SizeOfBinding(Context_find_binding(typ.id, RECURSION_LIMIT, cache, mb),
                          cache, mb)
      [] typ.tag = "UD" -> size_of_user_defined_type(typ.id, <<>>, cache, mb)
      [] typ.tag = "App" ->
            IF typ.con.tag = "UD"
            THEN size_of_user_defined_type(typ.con.id, typ.args, cache, mb)
            ELSE -1
      [] typ.tag = "Ref" -> ptr_size

(***************************************************************************)
(* convert_type: types::Type to hir::types::Type.  Every function returns  *)
(* the type together with Context.types as the call leaves it.             *)
(***************************************************************************)
Converted(typ, memo) == [typ |-> typ, types |-> memo]

\* a panic while converting the kind of an integer
IntegerOrPanic(kind) == IF kind = "Panic" THEN Panic ELSE hir_Integer(kind)

convert_primitive_type(typ, cache, mb) ==
    CASE typ.p = "IntegerType" -> IntegerOrPanic(convert_integer_kind(typ.kind, cache, mb))
      [] typ.p = "float" -> hir_Primitive("Float")
      [] typ.p = "char" -> hir_Primitive("Char")
      [] typ.p = "bool" -> hir_Primitive("Boolean")
      [] typ.p = "unit" -> hir_Primitive("Unit")
      [] typ.p = "Ptr" -> hir_Primitive("Pointer")

tag_type == hir_Integer("U8")

\* Type::is_unit on a type that is not a type variable
is_unit(typ) == typ = UnitType

\* map_or(false, is_unit) on the environment followed one step
IsUnitResult(env) == env.res = "Ok" /\ is_unit(env.typ)

empty_closure_environment(environment, cache, mb) ==
    IsUnitResult(follow_bindings_shallow(environment, cache, mb))

RECURSIVE convert_type_inner(_, _, _, _, _)
RECURSIVE ConvertAll(_, _, _, _, _, _)
RECURSIVE convert_user_defined_type(_, _, _, _, _)

convert_type(typ, memo, cache, mb) ==
    convert_type_inner(typ, RECURSION_LIMIT, memo, cache, mb)

NoTypes(memo) == [typs |-> <<>>, types |-> memo, panic |-> FALSE]
PushFront(typ, rest) ==
    [typs |-> <<typ>> \o rest.typs, types |-> rest.types, panic |-> rest.panic]

\* typs[i] was converted to head: go on with typs[i+1..] unless it panicked
ConvertRest(head, typs, i, fuel, cache, mb) ==
    IF head.typ.tag = "Panic" THEN [typs |-> <<>>, types |-> head.types, panic |-> TRUE]
    ELSE PushFront(head.typ, ConvertAll(typs, i + 1, fuel, head.types, cache, mb))

\* fmap(typs[i..], convert_type_inner), left to right, up to the first panic
ConvertAll(typs, i, fuel, memo, cache, mb) ==
    IF i > Len(typs) THEN NoTypes(memo)
    ELSE ConvertRest(convert_type_inner(typs[i], fuel, memo, cache, mb),
                     typs, i, fuel, cache, mb)

\* the tuple of the converted fields, stored over the placeholder
TupleOf(id, args, first, fields) ==
    IF fields.panic THEN Converted(Panic, fields.types)
    ELSE Converted(hir_Tuple(first \o fields.typs),
                   MapInsert(fields.types, <<id, args>>, hir_Tuple(first \o fields.typs)))

convert_struct_type(id, info, fields, args, memo, cache, mb) ==
    TupleOf(id, args, <<>>,
            ConvertAll(BindFields(fields, type_application_bindings(info, args), cache),
                       1, RECURSION_LIMIT,
                       MapInsert(memo, <<id, args>>, hir_Tuple(<<>>)), cache, mb))

\* convert_union_type once the largest variant is known
UnionOf(id, args, largest, memo, cache, mb) ==
    IF largest.panic THEN Converted(Panic, memo)
    ELSE IF largest.none
    THEN Converted(hir_Tuple(<<>>), MapInsert(memo, <<id, args>>, hir_Tuple(<<>>)))
    ELSE TupleOf(id, args, <<tag_type>>,
                 ConvertAll(largest.variant, 1, RECURSION_LIMIT,
                            MapInsert(memo, <<id, args>>, hir_Tuple(<<>>)), cache, mb))

convert_union_type(id, info, variants, args, memo, cache, mb) ==
    UnionOf(id, args,
            find_largest_union_variant(variants, type_application_bindings(info, args),
                                       cache, mb),
            memo, cache, mb)

convert_user_defined_type(id, args, memo, cache, mb) ==
    IF Len(TypeInfos[id].args) # Len(args) THEN Converted(Panic, memo)
    ELSE IF <<id, args>> \in DOMAIN memo THEN Converted(memo[<<id, args>>], memo)
    ELSE IF TypeInfos[id].body = "Union"
    THEN convert_union_type(id, TypeInfos[id], TypeInfos[id].variants, args, memo, cache, mb)
    ELSE convert_struct_type(id, TypeInfos[id], TypeInfos[id].fields, args, memo, cache, mb)

\* the function type, or the closure tuple of the function and its environment
ClosureOf(parameters, return_type, environment, is_varargs) ==
    IF environment.typ.tag = "Panic" THEN environment
    ELSE Converted(hir_Tuple(<<hir_Function(parameters.typs \o <<environment.typ>>,
                                            return_type.typ, is_varargs),
                               environment.typ>>),
                   environment.types)

\* the Function arm after the return type
FunctionOf(parameters, return_type, typ, fuel, cache, mb) ==
    IF return_type.typ.tag = "Panic"
       \/ follow_bindings_shallow(typ.environment, cache, mb).res = "Panic"
    THEN Converted(Panic, return_type.types)
    ELSE IF empty_closure_environment(typ.environment, cache, mb)
    THEN Converted(hir_Function(parameters.typs, return_type.typ, typ.is_varargs),
                   return_type.types)
    ELSE ClosureOf(parameters, return_type,
                   convert_type_inner(typ.environment, fuel, return_type.types, cache, mb),
                   typ.is_varargs)

\* the Function arm after the parameters
ReturnTypeOf(parameters, typ, fuel, cache, mb) ==
    IF parameters.panic THEN Converted(Panic, parameters.types)
    ELSE FunctionOf(parameters,
                    convert_type_inner(typ.return_type, fuel, parameters.types, cache, mb),
                    typ, fuel, cache, mb)

\* the TypeVariable arm on the result of find_binding
ConvertBinding(b, fuel, memo, cache, mb) ==
    CASE b.res = "Ok" -> convert_type_inner(b.typ, fuel, memo, cache, mb)
      [] b.res = "Err" -> convert_type_inner(UNBOUND_TYPE, fuel, memo, cache, mb)
      [] b.res = "Panic" -> Converted(Panic, memo)

\* the TypeApplication arm on the followed constructor and arguments
ConvertApplication(con, args, memo, cache, mb) ==
    IF AnyPanic(args) \/ con.res # "Ok" THEN Converted(Panic, memo)
    ELSE IF con.typ = PtrType \/ con.typ.tag = "Ref"
    THEN Converted(hir_Primitive("Pointer"), memo)
    ELSE IF con.typ.tag = "UD"
    THEN convert_user_defined_type(con.typ.id, args, memo, cache, mb)
    ELSE Converted(Panic, memo)

convert_type_inner(typ, fuel, memo, cache, mb) ==
    IF fuel = 0 THEN Converted(Panic, memo)
    ELSE CASE typ.tag = "Prim" ->
                Converted(convert_primitive_type(typ, cache, mb), memo)
           [] typ.tag = "Fn" ->
                ReturnTypeOf(ConvertAll(typ.parameters, 1, fuel - 1, memo, cache, mb),
                             typ, fuel - 1, cache, mb)
           [] typ.tag = "Var" ->
                ConvertBinding(Context_find_binding(typ.id, fuel - 1, cache, mb),
                               fuel - 1, memo, cache, mb)
           [] typ.tag = "UD" -> convert_user_defined_type(typ.id, <<>>, memo, cache, mb)
           [] typ.tag = "App" ->
                ConvertApplication(
                    follow_bindings_shallow(typ.con, cache, mb),
                    [i \in DOMAIN typ.args |-> follow_all_bindings(typ.args[i], cache, mb)],
                    memo, cache, mb)
           [] typ.tag = "Ref" -> Converted(Panic, memo)

(***************************************************************************)
(* Specification SpecConvert: convert_type called on the types of a        *)
(* program, under one cache and one stack of monomorphisation bindings.    *)
(* Context.types carries over from call to call; a panic ends the run.     *)
(***************************************************************************)
MaxTypes == 2    \* conversions go on while Context.types holds fewer entries

Unbound5 == [id \in Ids |-> Unbound(1)]

ConvertCaches ==
    {Unbound5,
     [Unbound5 EXCEPT ![1] = Bound(IntType), ![2] = Bound(V1)],
     [Unbound5 EXCEPT ![1] = Bound(Ref(4)), ![2] = Bound(TypeApplication(Ref(4), <<IntType>>))],
     [Unbound5 EXCEPT ![1] = Bound(UserDefined(1)), ![2] = Bound(PtrType)],
     [Unbound5 EXCEPT ![1] = Bound(V3)],
     [Unbound5 EXCEPT ![1] = Bound(UnitType),
                      ![2] = Bound(Function(<<V1>>, BoolType, V1, FALSE))],
     [Unbound5 EXCEPT ![1] = Bound(IntegerType(IntegerKind("U8"))),
                      ![2] = Bound(IntegerType(Inferred(1)))]}

ConvertBindings ==
    {<<>>,
     << (2 :> BoolType) >>,
     << (2 :> IntType), (2 :> V1) >>,
     << (1 :> V2), (2 :> BoolType) >>}

ConvertTypes ==
    {IntType, BoolType, UnitType, PtrType, Primitive("float"),
     IntegerType(IntegerKind("Unknown")), IntegerType(IntegerKind("U8")),
     IntegerType(Inferred(1)), IntegerType(Inferred(2)),
     V1, V2, Ref(4),
     Function(<<V1>>, IntType, UnitType, FALSE),
     Function(<<IntType>>, V2, V1, TRUE),
     Function(<<Ref(4)>>, IntType, UnitType, FALSE),
     TypeApplication(PtrType, <<V1>>),
     TypeApplication(Ref(4), <<IntType>>),
     TypeApplication(Ref(5), <<V2>>),
     TypeApplication(V1, <<IntType>>),
     TypeApplication(V2, <<IntType>>),
     TypeApplication(IntType, <<V1>>),
     UserDefined(1), UserDefined(3), UserDefined(4), UserDefined(6),
     TypeApplication(UserDefined(1), <<V1>>),
     TypeApplication(UserDefined(1), <<V2, IntType>>),
     TypeApplication(UserDefined(2), <<V2>>),
     TypeApplication(UserDefined(2), <<TypeApplication(UserDefined(1), <<IntType>>)>>),
     TypeApplication(UserDefined(5), <<IntType>>)}

Panicked == call.op = "convert_type" /\ call.result.tag = "Panic"

InitConvert ==
    /\ type_bindings \in ConvertCaches
    /\ bindings = UnificationBindings_empty
    /\ call = NoCall(type_bindings)
    /\ performs = 0
    /\ current_level = INITIAL_LEVEL
    /\ NoInference
    /\ monomorphisation_bindings \in ConvertBindings
    /\ definitions = EmptyMap
    /\ types = EmptyMap
    /\ direct_impl_mappings = <<EmptyIdMap>>
    /\ indirect_impl_mappings = <<EmptyIdMap>>
    /\ direct_given_impl_mappings = <<EmptyIdMap>>
    /\ indirect_given_impl_mappings = <<EmptyIdMap>>
    /\ next_id = 0
    /\ requests = <<>>
    /\ required_impls = EmptyIdMap

\* convert_type(typ) gave r: the result, and Context.types as it is left
Returns(typ, r) ==
    /\ call' = Call("convert_type", typ, typ, "", 0, type_bindings,
                    UnificationBindings_empty, r.typ)
    /\ types' = r.types

ConvertType(typ) ==
    /\ ~Panicked
    /\ Cardinality(DOMAIN types) < MaxTypes
    /\ Returns(typ, convert_type(typ, types, type_bindings, monomorphisation_bindings))
    /\ UNCHANGED <<type_bindings, bindings, performs, current_level, infer_vars,
                   monomorphisation_bindings, definitions, impl_vars, next_id,
                   required_impls, requests>>

NextConvert ==
    \E typ \in ConvertTypes : ConvertType(typ)

SpecConvert == InitConvert /\ [][NextConvert]_vars

(***************************************************************************)
(* Properties of convert_type                                              *)
(***************************************************************************)
Lowered == call.op = "convert_type" /\ call.result.tag # "Panic"

RECURSIVE IsHirType(_)
IsHirType(t) ==
    CASE t.tag = "HPrim" ->
            \/ t.p \in {"Float", "Char", "Boolean", "Unit", "Pointer"}
            \/ t.p = "Integer" /\ t.kind \in {"I8", "I16", "I32", "I64", "Isz",
                                               "U8", "U16", "U32", "U64", "Usz"}
      [] t.tag = "HFn" ->
            /\ \A i \in DOMAIN t.parameters : IsHirType(t.parameters[i])
            /\ IsHirType(t.return_type)
      [] t.tag = "HTuple" -> \A i \in DOMAIN t.fields : IsHirType(t.fields[i])
      [] OTHER -> FALSE

\* the chain of bindings of a type variable ends at an unbound variable
EndsUnbound(typ) ==
    /\ typ.tag = "Var"
    /\ Context_find_binding(typ.id, RECURSION_LIMIT, type_bindings,
                            monomorphisation_bindings).res = "Err"

\* C8: whenever convert_type returns, the IR type is built of primitives,
\* tuples and function types only; a type variable whose chain of bindings ends
\* unbound lowers to unit, an application of Ptr or of a reference lowers to the
\* raw pointer, a user-defined type lowers to a tuple; a bare reference panics.
C8_Totality ==
    /\ Lowered => IsHirType(call.result)
    /\ Lowered /\ EndsUnbound(call.t1) => call.result = hir_Primitive("Unit")
    /\ Lowered /\ call.t1.tag = "App" /\ (call.t1.con = PtrType \/ call.t1.con.tag = "Ref")
          => call.result = hir_Primitive("Pointer")
    /\ Lowered /\ (call.t1.tag = "UD" \/ (call.t1.tag = "App" /\ call.t1.con.tag = "UD"))
          => call.result.tag = "HTuple"
    /\ call.op = "convert_type" /\ call.t1.tag = "Ref" => call.result.tag = "Panic"

\* C8 witness: Maybe applied to a type variable that ends unbound was lowered to
\* the tuple of the tag and unit
C8_Witness ==
    /\ Lowered
    /\ call.t1.tag = "App"
    /\ call.t1.con = UserDefined(2)
    /\ EndsUnbound(call.t1.args[1])
    /\ call.result = hir_Tuple(<<tag_type, hir_Primitive("Unit")>>)

(***************************************************************************)
(* Monomorphisation of a typed program: hir/monomorphisation.rs.           *)
(*                                                                         *)
(* The typed program the monomorphiser walks.  In source syntax:           *)
(*                                                                         *)
(*     trait Show a with show : a -> i32                                   *)
(*     impl Show i32  with show a = f true a                               *)
(*     impl Show bool with show b = f b 0                                  *)
(*     f x y = y; show x; y            (given Show a)                      *)
(*     q z = f z 1                     (given Show a)                      *)
(*     f _ 2                                                               *)
(*     show _                                                              *)
(*     q _                                                                 *)
(*     extern puts : a -> i32                                              *)
(*     puts _                                                              *)
(*     k = mut 3                                                           *)
(*     puts k                                                              *)
(*     puts _                                                              *)
(*     ap g = g 1                                                          *)
(*     ap _                                                                *)
(*     h (mut m) = m                                                       *)
(*     h k                                                                 *)
(*                                                                         *)
(* The three arguments written _ have the type i32 or bool, chosen by the  *)
(* initial state together with the impl the type checker resolved for it;  *)
(* the first argument of puts has the type of the argument of show, the    *)
(* last one the type of the first argument of f.  The argument of ap is a  *)
(* function i32 -> i32 whose closure environment the initial state chooses:*)
(* unit, i32, or a type variable left unbound.                             *)
(* A node is named by its index, which is also the VariableId of a         *)
(* Variable node.  No lambda of the program captures a variable, and the   *)
(* program has no builtin call and no type constructor; its literals have *)
(* a concrete kind.                                                        *)
(***************************************************************************)
Sequence_(statements) == [kind |-> "Sequence", statements |-> statements]
FunctionCall_(function, args) ==
    [kind |-> "FunctionCall", function |-> function, args |-> args]
Variable_(definition, typ, instantiation_mapping) ==
    [kind |-> "Variable", definition |-> definition, typ |-> typ,
     instantiation_mapping |-> instantiation_mapping]
Lambda_(args, body, typ) ==
    [kind |-> "Lambda", args |-> args, body |-> body, typ |-> typ]
Definition_(pattern, expr, mutable) ==
    [kind |-> "Definition", pattern |-> pattern, expr |-> expr, mutable |-> mutable]
Pattern_(definition, typ) ==
    [kind |-> "Pattern", definition |-> definition, typ |-> typ]
Literal_ == [kind |-> "Literal"]

\* a -> i32 and a -> i32 -> i32, functions without a closure environment
Fn1(a) == Function(<<a>>, IntType, UnitType, FALSE)
Fn2(a) == Function(<<a, IntType>>, IntType, UnitType, FALSE)

\* i32 -> i32 with the closure environment e, and the type of ap
FnEnv(e) == Function(<<IntType>>, IntType, e, FALSE)
FnAp(e) == Function(<<FnEnv(e)>>, IntType, UnitType, FALSE)

TypedAst ==
    << Sequence_(<<2, 13, 21, 25, 28, 31, 34, 37, 56, 59, 66, 69, 74>>),
       Definition_(3, 4, FALSE),
       Pattern_(4, Fn2(TypeVariable(2))),
       Lambda_(<<5, 6>>, 7, Fn2(TypeVariable(2))),
       Pattern_(5, TypeVariable(2)),
       Pattern_(6, IntType),
       Sequence_(<<8, 9, 12>>),
       Variable_(6, IntType, EmptyMap),
       FunctionCall_(10, <<11>>),
       Variable_(1, Fn1(TypeVariable(9)), (1 :> TypeVariable(9))),
       Variable_(5, TypeVariable(2), EmptyMap),
       Variable_(6, IntType, EmptyMap),
       Definition_(14, 15, FALSE),
       Pattern_(9, Fn1(TypeVariable(3))),
       Lambda_(<<16>>, 17, Fn1(TypeVariable(3))),
       Pattern_(10, TypeVariable(3)),
       FunctionCall_(18, <<19, 20>>),
       Variable_(4, Fn2(TypeVariable(10)), (2 :> TypeVariable(10))),
       Variable_(10, TypeVariable(3), EmptyMap),
       Literal_,
       FunctionCall_(22, <<23, 24>>),
       Variable_(4, Fn2(TypeVariable(4)), (2 :> TypeVariable(4))),
       Literal_,
       Literal_,
       FunctionCall_(26, <<27>>),
       Variable_(1, Fn1(TypeVariable(5)), (1 :> TypeVariable(5))),
       Literal_,
       FunctionCall_(29, <<30>>),
       Variable_(9, Fn1(TypeVariable(6)), (3 :> TypeVariable(6))),
       Literal_,
       FunctionCall_(32, <<33>>),
       Variable_(12, Fn1(TypeVariable(12)), (11 :> TypeVariable(12))),
       Literal_,
       Definition_(35, 36, TRUE),
       Pattern_(11, IntType),
       Literal_,
       FunctionCall_(38, <<39>>),
       Variable_(12, Fn1(TypeVariable(14)), (11 :> TypeVariable(14))),
       Variable_(11, IntType, EmptyMap),
       Definition_(41, 42, FALSE),
       Pattern_(2, Fn1(IntType)),
       Lambda_(<<43>>, 44, Fn1(IntType)),
       Pattern_(7, IntType),
       FunctionCall_(45, <<46, 47>>),
       Variable_(4, Fn2(TypeVariable(7)), (2 :> TypeVariable(7))),
       Literal_,
       Variable_(7, IntType, EmptyMap),
       Definition_(49, 50, FALSE),
       Pattern_(3, Fn1(BoolType)),
       Lambda_(<<51>>, 52, Fn1(BoolType)),
       Pattern_(8, BoolType),
       FunctionCall_(53, <<54, 55>>),
       Variable_(4, Fn2(TypeVariable(8)), (2 :> TypeVariable(8))),
       Variable_(8, BoolType, EmptyMap),
       Literal_,
       FunctionCall_(57, <<58>>),
       Variable_(12, Fn1(TypeVariable(13)), (11 :> TypeVariable(13))),
       Literal_,
       Definition_(60, 61, FALSE),
       Pattern_(13, FnAp(TypeVariable(15))),
       Lambda_(<<62>>, 63, FnAp(TypeVariable(15))),
       Pattern_(14, FnEnv(TypeVariable(15))),
       FunctionCall_(64, <<65>>),
       Variable_(14, FnEnv(TypeVariable(15)), EmptyMap),
       Literal_,
       FunctionCall_(67, <<68>>),
       Variable_(13, FnAp(TypeVariable(16)), (15 :> TypeVariable(16))),
       Literal_,
       Definition_(70, 71, FALSE),
       Pattern_(15, Fn1(IntType)),
       Lambda_(<<72>>, 73, Fn1(IntType)),
       Pattern_(16, IntType),
       Variable_(16, IntType, EmptyMap),
       FunctionCall_(75, <<76>>),
       Variable_(15, Fn1(IntType), EmptyMap),
       Variable_(11, IntType, EmptyMap) >>

\* Callsite of a RequiredImpl or a RequiredTrait
Direct(callsite) == [kind |-> "Direct", callsite |-> callsite]
Indirect(callsite, id) == [kind |-> "Indirect", callsite |-> callsite, id |-> id]
GivenDirect(callsite, origin) ==
    [kind |-> "GivenDirect", callsite |-> callsite, origin |-> origin]
GivenIndirect(callsite, key, origin) ==
    [kind |-> "GivenIndirect", callsite |-> callsite, key |-> key, origin |-> origin]

RequiredImpl(callsite, binding) == [callsite |-> callsite, binding |-> binding]
RequiredTrait(trait_id, id, callsite) ==
    [trait_id |-> trait_id, id |-> id, callsite |-> callsite]

\* cache.definition_infos: the kind of the definition, the Definition node
\* of its right-hand side, whether it is the method of a trait impl, its
\* type, its required traits
DefinitionInfo(kind, node, trait_impl, mutable, typ, required_traits) ==
    [kind |-> kind, node |-> node, trait_impl |-> trait_impl, mutable |-> mutable,
     typ |-> typ, required_traits |-> required_traits]
Parameter(typ) == DefinitionInfo("Parameter", 0, FALSE, FALSE, typ, <<>>)

DefinitionInfos ==
    << DefinitionInfo("TraitDefinition", 0, FALSE, FALSE, Fn1(TypeVariable(1)), <<>>),
       DefinitionInfo("Definition", 40, TRUE, FALSE, Fn1(IntType), <<>>),
       DefinitionInfo("Definition", 48, TRUE, FALSE, Fn1(BoolType), <<>>),
       DefinitionInfo("Definition", 2, FALSE, FALSE, Fn2(TypeVariable(2)),
                      <<RequiredTrait(1, 1, Direct(10))>>),
       Parameter(TypeVariable(2)),
       Parameter(IntType),
       Parameter(IntType),
       Parameter(BoolType),
       DefinitionInfo("Definition", 13, FALSE, FALSE, Fn1(TypeVariable(3)),
                      <<RequiredTrait(1, 2, Indirect(18, 1))>>),
       Parameter(TypeVariable(3)),
       DefinitionInfo("Definition", 34, FALSE, TRUE, IntType, <<>>),
       DefinitionInfo("Extern", 0, FALSE, FALSE, Fn1(TypeVariable(11)), <<>>),
       DefinitionInfo("Definition", 59, FALSE, FALSE, FnAp(TypeVariable(15)), <<>>),
       Parameter(FnEnv(TypeVariable(15))),
       DefinitionInfo("Definition", 69, FALSE, FALSE, Fn1(IntType), <<>>),
       DefinitionInfo("Parameter", 0, FALSE, TRUE, IntType, <<>>) >>

\* cache.trait_infos: the definitions a trait declares
TraitInfos == << [definitions |-> <<1>>] >>

\* cache.impl_infos: for each impl, the method that defines each trait member
ImplInfos == << (1 :> 2), (1 :> 3) >>

\* the type an impl is for
ImplTypes == << IntType, BoolType >>

\* ModuleCache::find_method_in_impl: the definition in the impl that has the
\* name of the trait member the call-site variable was resolved to
find_method_in_impl(callsite, binding) ==
    ImplInfos[binding][TypedAst[callsite].definition]

MonoNodes == DOMAIN TypedAst
MonoTypeVariableIds == 1 .. 16

\* enum Definition: the variant and the hir::DefinitionInfo it carries, whose
\* definition is None in a reference and Some once the right-hand side is
\* compiled
Normal(definition_id, definition) ==
    [kind |-> "Normal", definition_id |-> definition_id, definition |-> definition]
Mutable(definition_id, definition) ==
    [kind |-> "Mutable", definition_id |-> definition_id, definition |-> definition]

Last(s) == s[Len(s)]
SetLast(s, x) == [s EXCEPT ![Len(s)] = x]
Front(s) == SubSeq(s, 1, Len(s) - 1)

\* map.entry(key).or_default().push(x)
EntryPush(map, key, x) ==
    MapInsert(map, key, Append(IF key \in DOMAIN map THEN map[key] ELSE <<>>, x))

\* the four impl mappings of one frame
ImplMappings(direct, indirect, direct_given, indirect_given) ==
    [res |-> "Ok", direct |-> direct, indirect |-> indirect,
     direct_given |-> direct_given, indirect_given |-> indirect_given]
NoImplMappings == ImplMappings(EmptyIdMap, EmptyIdMap, EmptyIdMap, EmptyIdMap)

\* the mappings .last() of the four stacks gives
LastImplMappings ==
    ImplMappings(Last(direct_impl_mappings), Last(indirect_impl_mappings),
                 Last(direct_given_impl_mappings), Last(indirect_given_impl_mappings))

RECURSIVE InsertGivenImpls(_, _, _, _)

\* for (constraint_id, impl_id) in impls { new_indirect.insert((from, constraint_id), impl_id) }
InsertGivenImpls(impls, i, from, indirect) ==
    IF i > Len(impls) THEN indirect
    ELSE InsertGivenImpls(impls, i + 1, from,
                          MapInsert(indirect, <<from, impls[i][1]>>, impls[i][2]))

\* the first loop of add_required_impls
AddGivenImpls(from, m) ==
    IF from \in DOMAIN m.direct_given
    THEN [m EXCEPT !.indirect = InsertGivenImpls(m.direct_given[from], 1, from, @)]
    ELSE m

\* the match on required_impl.callsite
AddRequiredImpl(c, binding, from, m) ==
    CASE c.kind = "Direct" ->
            [m EXCEPT !.direct =
                MapInsert(@, c.callsite, find_method_in_impl(c.callsite, binding))]
      [] c.kind = "Indirect" ->
            [m EXCEPT !.indirect = MapInsert(@, <<c.callsite, c.id>>, binding)]
      [] c.kind = "GivenDirect" /\ c.callsite = from ->
            [m EXCEPT !.indirect = MapInsert(@, <<c.callsite, c.origin>>, binding)]
      [] c.kind = "GivenDirect" /\ c.callsite # from ->
            [m EXCEPT !.direct_given = EntryPush(@, c.callsite, <<c.origin, binding>>)]
      [] c.kind = "GivenIndirect" ->
            [m EXCEPT !.indirect_given =
                EntryPush(@, c.key, <<c.callsite, c.origin, binding>>)]

RECURSIVE AddRequiredImpls(_, _, _, _)

AddRequiredImpls(impls, i, from, m) ==
    IF i > Len(impls) THEN m
    ELSE AddRequiredImpls(impls, i + 1, from,
                          AddRequiredImpl(impls[i].callsite, impls[i].binding, from, m))

add_required_impls(impls, from, m) ==
    AddRequiredImpls(impls, 1, from, AddGivenImpls(from, m))

\* the mutant of get_definition_id that ignores the impl mappings
get_definition_id_resolved(variable, direct) == TypedAst[variable].definition

get_definition_id(variable, direct) ==
    IF variable \in DOMAIN direct THEN direct[variable]
    ELSE TypedAst[variable].definition

Some(value) == [found |-> TRUE, value |-> value]
None == [found |-> FALSE]

\* self.definitions.get(&(id, typ))
GetDefinition(key, defs) == IF key \in DOMAIN defs THEN Some(defs[key]) ELSE None

lookup_definition(id, typ, defs, cache, mb) ==
    GetDefinition(<<id, follow_all_bindings(typ, cache, mb)>>, defs)

\* the stack of bindings after a push, or a panic
Pushed(mb) == [res |-> "Ok", bindings |-> mb]

\* the bindings try_unify gives for the type of a trait impl's method; the
\* monomorphiser expects the unification to succeed
PushImplBindings(st, mb) ==
    IF st.err = "" THEN Pushed(Append(mb, st.bindings)) ELSE PanicResult

PushInstantiation(instantiation_mapping, mb) ==
    IF DOMAIN instantiation_mapping # {} THEN Append(mb, instantiation_mapping) ELSE mb

push_monomorphisation_bindings(instantiation_mapping, typ, definition, cache, mb) ==
    IF definition.trait_impl
    THEN PushImplBindings(try_unify(typ, definition.typ, cache),
                          PushInstantiation(instantiation_mapping, mb))
    ELSE Pushed(PushInstantiation(instantiation_mapping, mb))

PopInstantiation(instantiation_mapping, mb) ==
    IF DOMAIN instantiation_mapping # {} THEN Front(mb) ELSE mb

pop_monomorphisation_bindings(instantiation_mapping, definition, mb) ==
    IF definition.trait_impl THEN Front(PopInstantiation(instantiation_mapping, mb))
    ELSE PopInstantiation(instantiation_mapping, mb)

RECURSIVE PushGivenImpls(_, _, _, _)

\* for given_impl in impls { match required_trait.callsite { ... } }
PushGivenImpls(impls, i, c, new) ==
    IF i > Len(impls) THEN new
    ELSE PushGivenImpls(impls, i + 1, c,
            IF c.kind = "Direct"
            THEN [new EXCEPT !.direct_given =
                     EntryPush(@, c.callsite, <<impls[i][2], impls[i][3]>>)]
            ELSE [new EXCEPT !.indirect_given = EntryPush(@, c.id, impls[i])])

\* the second loop of the body: the given impls of the constraint
AddGivenTraits(required_trait, last, new) ==
    IF required_trait.id \in DOMAIN last.indirect_given
    THEN PushGivenImpls(last.indirect_given[required_trait.id], 1,
                        required_trait.callsite, new)
    ELSE new

\* the match on required_trait.callsite, with the impl the caller bound
AddRequiredTrait(required_trait, binding, last, new) ==
    CASE required_trait.callsite.kind = "Direct" ->
            AddGivenTraits(required_trait, last,
                [new EXCEPT !.direct =
                    MapInsert(@, required_trait.callsite.callsite,
                              find_method_in_impl(required_trait.callsite.callsite, binding))])
      [] required_trait.callsite.kind = "Indirect" ->
            AddGivenTraits(required_trait, last,
                [new EXCEPT !.indirect =
                    MapInsert(@, <<required_trait.callsite.callsite,
                                   required_trait.callsite.id>>, binding)])
      [] OTHER -> PanicResult

RECURSIVE AddRequiredTraits_continue(_, _, _, _, _)

\* the mutant of the loop that skips a required trait without an entry
AddRequiredTraits_continue(traits, i, variable_id, last, new) ==
    IF i > Len(traits) \/ new.res = "Panic" THEN new
    ELSE IF \/ TraitInfos[traits[i].trait_id].definitions = <<>>
            \/ <<variable_id, traits[i].id>> \notin DOMAIN last.indirect
    THEN AddRequiredTraits_continue(traits, i + 1, variable_id, last, new)
    ELSE AddRequiredTraits_continue(traits, i + 1, variable_id, last,
            AddRequiredTrait(traits[i], last.indirect[<<variable_id, traits[i].id>>],
                             last, new))

RECURSIVE AddRequiredTraits(_, _, _, _, _)

AddRequiredTraits(traits, i, variable_id, last, new) ==
    IF i > Len(traits) \/ new.res = "Panic" THEN new
    ELSE IF TraitInfos[traits[i].trait_id].definitions = <<>>
    THEN AddRequiredTraits(traits, i + 1, variable_id, last, new)
    ELSE IF <<variable_id, traits[i].id>> \notin DOMAIN last.indirect
    THEN PanicResult
    ELSE AddRequiredTraits(traits, i + 1, variable_id, last,
            AddRequiredTrait(traits[i], last.indirect[<<variable_id, traits[i].id>>],
                             last, new))

\* the mappings add_required_traits pushes, or a panic
add_required_traits(definition, variable_id, last) ==
    AddRequiredTraits(definition.required_traits, 1, variable_id, last, NoImplMappings)

\* desugar_pattern on a variable pattern, the only pattern of the program
desugar_pattern(pattern, definition_id, typ, mutable, defs) ==
    MapInsert(defs, <<TypedAst[pattern].definition, typ>>,
              IF mutable THEN Mutable(definition_id, "None")
              ELSE Normal(definition_id, "None"))

\* pattern_is_mutable on a variable pattern
pattern_is_mutable(pattern) == DefinitionInfos[TypedAst[pattern].definition].mutable

\* one entry of the log of monomorphise_definition_id requests, and of the
\* bindings monomorphise_lambda and monomorphise_definition make:
\* the key, whether lookup_definition found it, the Definition returned,
\* next_id when the request was made and when it returned
Request(op, id, variable_id, typ, hit, definition, ids_before, ids_after) ==
    [op |-> op, id |-> id, variable_id |-> variable_id, typ |-> typ, hit |-> hit,
     definition |-> definition, ids_before |-> ids_before, ids_after |-> ids_after]

\* the Definition of a request that has not returned yet
Pending == [kind |-> "Pending", definition_id |-> 0 - 1, definition |-> "None"]

\* a call of monomorphise on a node: the child to monomorphise next, the
\* request it compiles and the hir::Ast of the children monomorphised so far
MonoFrame(node, pc, id, typ, definition_id, request, values) ==
    [node |-> node, pc |-> pc, id |-> id, typ |-> typ,
     definition_id |-> definition_id, request |-> request, values |-> values]
Enter(node) == MonoFrame(node, 0, 0, UnitType, 0, 0, <<>>)

Visiting(kind) == stack # <<>> /\ TypedAst[Top.node].kind = kind
MonoPanicked == call.err = "panic"

\* self.monomorphise(child), and the return to the caller
MonoDescend(child) ==
    stack' = Append([stack EXCEPT ![Len(stack)].pc = @ + 1], Enter(child))
MonoReturn(value) ==
    stack' = IF Len(stack) = 1 THEN <<>>
             ELSE SetLast(Front(stack),
                          [stack[Len(stack) - 1] EXCEPT !.values = Append(@, value)])
MonoPanic == call' = [call EXCEPT !.err = "panic"]

\* what the walk never changes
typed_program == <<type_bindings, bindings, performs, current_level, refs, typed, info_typ,
                   required_impls>>

\* the requests being compiled when a variable is reached, outermost first
Callers == SelectSeq(stack, LAMBDA fr : TypedAst[fr.node].kind = "Variable" /\ fr.pc = 1)

\* the record of the definition monomorphise_variable chose for a variable
Dispatched(variable, definition_id, err) ==
    Call("monomorphise_variable", TypedAst[variable].typ, TypedAst[variable].typ,
         err, 0, type_bindings, UnificationBindings_empty,
         [variable |-> variable, definition_id |-> definition_id, callers |-> Callers])

SetLastImplMappings(m) ==
    /\ direct_impl_mappings' = SetLast(direct_impl_mappings, m.direct)
    /\ indirect_impl_mappings' = SetLast(indirect_impl_mappings, m.indirect)
    /\ direct_given_impl_mappings' = SetLast(direct_given_impl_mappings, m.direct_given)
    /\ indirect_given_impl_mappings' =
            SetLast(indirect_given_impl_mappings, m.indirect_given)

PushImplMappings(m, new) ==
    /\ direct_impl_mappings' = Append(SetLast(direct_impl_mappings, m.direct), new.direct)
    /\ indirect_impl_mappings' =
            Append(SetLast(indirect_impl_mappings, m.indirect), new.indirect)
    /\ direct_given_impl_mappings' =
            Append(SetLast(direct_given_impl_mappings, m.direct_given), new.direct_given)
    /\ indirect_given_impl_mappings' =
            Append(SetLast(indirect_given_impl_mappings, m.indirect_given),
                   new.indirect_given)

\* the mutant of the pops that leaves indirect_given_impl_mappings alone
PopImplMappings_three ==
    /\ direct_impl_mappings' = Front(direct_impl_mappings)
    /\ indirect_impl_mappings' = Front(indirect_impl_mappings)
    /\ direct_given_impl_mappings' = Front(direct_given_impl_mappings)
    /\ UNCHANGED indirect_given_impl_mappings

PopImplMappings ==
    /\ direct_impl_mappings' = Front(direct_impl_mappings)
    /\ indirect_impl_mappings' = Front(indirect_impl_mappings)
    /\ direct_given_impl_mappings' = Front(direct_given_impl_mappings)
    /\ indirect_given_impl_mappings' = Front(indirect_given_impl_mappings)

\* hir::Ast, as far as fix_arg_mutability and monomorphise_call look into it:
\* a variable with the parameters of the lambda its definition holds, a load,
\* a lambda, the nodes monomorphise_call builds; any other Ast is named by
\* the source node it was monomorphised from
hir_Ast(node) == [kind |-> "Ast", node |-> node]
hir_Variable(definition_id, args) ==
    [kind |-> "Variable", definition_id |-> definition_id, args |-> args]
hir_Deref(inner) == [kind |-> "Deref", inner |-> inner]
hir_Lambda(node, args) == [kind |-> "Lambda", node |-> node, args |-> args]
hir_MemberAccess(lhs, member_index) ==
    [kind |-> "MemberAccess", lhs |-> lhs, member_index |-> member_index]
hir_Definition(variable, expr) ==
    [kind |-> "Definition", variable |-> variable, expr |-> expr]
hir_FunctionCall(function, args, function_type) ==
    [kind |-> "FunctionCall", function |-> function, args |-> args,
     function_type |-> function_type]
hir_Sequence(statements) == [kind |-> "Sequence", statements |-> statements]
hir_Unreachable == [kind |-> "Panic"]

\* DefinitionId::to_variable: a variable without its definition
to_variable(id) == hir_Variable(id, <<>>)

\* the mutability of each parameter of a lambda, as monomorphise_lambda
\* stores it in hir::Lambda.args
LambdaArgs(node) ==
    [i \in DOMAIN TypedAst[node].args |-> pattern_is_mutable(TypedAst[node].args[i])]

\* get_function_args of the variable a Definition holds: the parameters of
\* the lambda when the variable carries its definition and that is a lambda
DefinitionArgs(value, id) ==
    IF /\ value.kind = "Normal"
       /\ value.definition = "Some"
       /\ DefinitionInfos[id].kind = "Definition"
       /\ TypedAst[TypedAst[DefinitionInfos[id].node].expr].kind = "Lambda"
    THEN LambdaArgs(TypedAst[DefinitionInfos[id].node].expr)
    ELSE <<>>

\* the Ast Definition::reference returns
Referenced(value, id) ==
    IF value.kind = "Mutable"
    THEN hir_Deref(hir_Variable(value.definition_id, DefinitionArgs(value, id)))
    ELSE hir_Variable(value.definition_id, DefinitionArgs(value, id))

\* Definition::reference: a mutable definition is dereferenced at the
\* converted type, the other variants convert nothing
reference(value, typ, memo, cache, mb) ==
    IF value.kind = "Mutable" THEN convert_type(typ, memo, cache, mb)
    ELSE Converted(hir_Primitive("Unit"), memo)

\* lookup_definition found the value: it is returned and referenced
Found(id, variable_id, key, value, m, r) ==
    /\ call' = Dispatched(variable_id, id, IF r.typ = Panic THEN "panic" ELSE "")
    /\ SetLastImplMappings(m)
    /\ requests' = Append(requests, Request("request", id, variable_id, key, TRUE,
                                            value, next_id, next_id))
    /\ types' = r.types
    /\ MonoReturn(Referenced(value, id))
    /\ UNCHANGED <<monomorphisation_bindings, definitions, next_id>>

\* a panic of monomorphise_definition_id: nothing is compiled
Unreachable(id, variable_id, m) ==
    /\ call' = Dispatched(variable_id, id, "panic")
    /\ SetLastImplMappings(m)
    /\ UNCHANGED <<monomorphisation_bindings, definitions, types, next_id, requests,
                   stack>>

\* the mutant of the arm that stores no placeholder before the right-hand
\* side is monomorphised
CompileDefinition_unstored(id, variable_id, key, m, mb, new) ==
    /\ call' = Dispatched(variable_id, id, "")
    /\ monomorphisation_bindings' = mb
    /\ PushImplMappings(m, new)
    /\ next_id' = next_id + 1
    /\ requests' = Append(requests, Request("request", id, variable_id, key, FALSE,
                                            Pending, next_id, 0 - 1))
    /\ stack' = Append(SetLast(stack, MonoFrame(Top.node, 1, id, key, next_id,
                                                Len(requests) + 1, <<>>)),
                       Enter(TypedAst[DefinitionInfos[id].node].expr))
    /\ UNCHANGED <<definitions, types>>

\* the DefinitionKind::Definition arm up to the call of
\* monomorphise_nonlocal_definition, which monomorphises definition.expr
CompileDefinition(id, variable_id, key, m, mb, new) ==
    /\ call' = Dispatched(variable_id, id, "")
    /\ monomorphisation_bindings' = mb
    /\ PushImplMappings(m, new)
    /\ next_id' = next_id + 1
    /\ definitions' = MapInsert(definitions, <<id, key>>, Normal(next_id, "None"))
    /\ requests' = Append(requests, Request("request", id, variable_id, key, FALSE,
                                            Pending, next_id, 0 - 1))
    /\ stack' = Append(SetLast(stack, MonoFrame(Top.node, 1, id, key, next_id,
                                                Len(requests) + 1, <<>>)),
                       Enter(TypedAst[DefinitionInfos[id].node].expr))
    /\ UNCHANGED types

\* make_extern when the extern is already declared: the value stored under
\* UNBOUND_TYPE is stored under the type as well
ExternDeclared(id, variable_id, key, value, m) ==
    /\ call' = Dispatched(variable_id, id, "")
    /\ SetLastImplMappings(m)
    /\ definitions' = MapInsert(definitions, <<id, key>>, value)
    /\ requests' = Append(requests, Request("request", id, variable_id, key, FALSE,
                                            value, next_id, next_id))
    /\ MonoReturn(Referenced(value, id))
    /\ UNCHANGED <<monomorphisation_bindings, types, next_id>>

\* make_extern declaring the extern at the converted type r
DeclareExtern(id, variable_id, key, m, r) ==
    /\ call' = Dispatched(variable_id, id, IF r.typ = Panic THEN "panic" ELSE "")
    /\ SetLastImplMappings(m)
    /\ types' = r.types
    /\ next_id' = next_id + 1
    /\ definitions' = MapInsert(MapInsert(definitions, <<id, key>>,
                                          Normal(next_id, "Some")),
                                <<id, UNBOUND_TYPE>>, Normal(next_id, "Some"))
    /\ requests' = Append(requests, Request("request", id, variable_id, key, FALSE,
                                            Normal(next_id, "Some"), next_id,
                                            next_id + 1))
    /\ MonoReturn(Referenced(Normal(next_id, "Some"), id))
    /\ UNCHANGED monomorphisation_bindings

\* the mutant of make_extern that never looks the extern up
make_extern_monomorphised(id, variable_id, key, m, mb, found) ==
    DeclareExtern(id, variable_id, key, m,
                  convert_type(key, types, type_bindings, mb))

make_extern(id, variable_id, key, m, mb, found) ==
    IF found.found THEN ExternDeclared(id, variable_id, key, found.value, m)
    ELSE DeclareExtern(id, variable_id, key, m,
                       convert_type(key, types, type_bindings, mb))

\* monomorphise_definition_id after a miss, with the bindings and the impl
\* mappings it pushed: the match on the kind of the definition
Compile(id, variable_id, key, m, mb, new) ==
    CASE mb.res = "Panic" \/ new.res = "Panic" -> Unreachable(id, variable_id, m)
      [] mb.res = "Ok" /\ new.res = "Ok" /\ DefinitionInfos[id].kind = "Definition" ->
            CompileDefinition(id, variable_id, key, m, mb.bindings, new)
      [] mb.res = "Ok" /\ new.res = "Ok" /\ DefinitionInfos[id].kind = "Extern" ->
            make_extern(id, variable_id, key, m, mb.bindings,
                        lookup_definition(id, UNBOUND_TYPE, definitions, type_bindings,
                                          mb.bindings))
      [] OTHER -> Unreachable(id, variable_id, m)

Requested(id, variable_id, typ, instantiation_mapping, m, found, key) ==
    IF found.found
    THEN Found(id, variable_id, key, found.value, m,
               reference(found.value, typ, types, type_bindings,
                         monomorphisation_bindings))
    ELSE Compile(id, variable_id, key, m,
                 push_monomorphisation_bindings(instantiation_mapping, key,
                        DefinitionInfos[id], type_bindings, monomorphisation_bindings),
                 add_required_traits(DefinitionInfos[id], variable_id, m))

monomorphise_definition_id(id, variable_id, typ, instantiation_mapping, m) ==
    Requested(id, variable_id, typ, instantiation_mapping, m,
              lookup_definition(id, typ, definitions, type_bindings,
                                monomorphisation_bindings),
              follow_all_bindings(typ, type_bindings, monomorphisation_bindings))

\* monomorphise_variable once add_required_impls has updated the mappings
monomorphise_variable(variable, m) ==
    monomorphise_definition_id(get_definition_id(variable, m.direct), variable,
                               TypedAst[variable].typ,
                               TypedAst[variable].instantiation_mapping, m)

\* monomorphise_variable
MonomorphiseVariable ==
    /\ Visiting("Variable")
    /\ Top.pc = 0
    /\ ~MonoPanicked
    /\ monomorphise_variable(Top.node,
            add_required_impls(required_impls[Top.node], Top.node, LastImplMappings))
    /\ UNCHANGED typed_program

\* the rest of the DefinitionKind::Definition arm once definition.expr is
\* monomorphised: monomorphise_nonlocal_definition binds the pattern, the
\* definition is stored, the mappings and the bindings are popped
DefinitionCompiled(frame, info, node, typ) ==
    /\ definitions' =
            MapInsert(desugar_pattern(node.pattern, frame.definition_id, typ,
                                      node.mutable, definitions),
                      <<frame.id, frame.typ>>, Normal(frame.definition_id, "Some"))
    /\ PopImplMappings
    /\ monomorphisation_bindings' =
            pop_monomorphisation_bindings(TypedAst[frame.node].instantiation_mapping,
                                          info, monomorphisation_bindings)
    /\ requests' = [requests EXCEPT
                        ![frame.request].definition = Normal(frame.definition_id, "Some"),
                        ![frame.request].ids_after = next_id]
    /\ MonoReturn(Referenced(Normal(frame.definition_id, "Some"), frame.id))
    /\ UNCHANGED <<call, types, next_id>>

MonomorphiseNonlocalDefinition ==
    /\ Visiting("Variable")
    /\ Top.pc = 1
    /\ ~MonoPanicked
    /\ DefinitionCompiled(Top, DefinitionInfos[Top.id],
            TypedAst[DefinitionInfos[Top.id].node],
            follow_all_bindings(
                TypedAst[TypedAst[DefinitionInfos[Top.id].node].pattern].typ,
                type_bindings, monomorphisation_bindings))
    /\ UNCHANGED typed_program

\* monomorphise_literal
MonomorphiseLiteral ==
    /\ Visiting("Literal")
    /\ ~MonoPanicked
    /\ MonoReturn(hir_Ast(Top.node))
    /\ UNCHANGED <<call, mono_vars, typed_program>>

\* monomorphise_sequence
MonomorphiseSequence ==
    /\ Visiting("Sequence")
    /\ ~MonoPanicked
    /\ IF Top.pc < Len(TypedAst[Top.node].statements)
       THEN MonoDescend(TypedAst[Top.node].statements[Top.pc + 1])
       ELSE MonoReturn(hir_Ast(Top.node))
    /\ UNCHANGED <<call, mono_vars, typed_program>>

\* fix_arg_mutability: the argument for a mutable parameter must be a load,
\* and the loaded address is passed instead
FixArg(arg, mutable) ==
    IF ~mutable THEN arg
    ELSE IF arg.kind = "Deref" THEN arg.inner
    ELSE hir_Unreachable

\* get_function_args
get_function_args(function) ==
    IF function.kind \in {"Variable", "Lambda"} THEN function.args ELSE <<>>

FixArgs(args, expected) ==
    [i \in DOMAIN args |-> FixArg(args[i], i <= Len(expected) /\ expected[i])]

fix_arg_mutability(args, function) == FixArgs(args, get_function_args(function))

\* the mutant of the closure call that passes the environment first
ClosureCall_environment_first(function, args, function_type, id) ==
    hir_Sequence(<<hir_Definition(id, function),
                   hir_FunctionCall(hir_MemberAccess(to_variable(id), 0),
                                    <<hir_MemberAccess(to_variable(id), 1)>> \o args,
                                    function_type)>>)

\* the closure call: the closure is bound to a fresh definition, its field 0
\* is called and its field 1 is the last argument
ClosureCall(function, args, function_type, id) ==
    hir_Sequence(<<hir_Definition(id, function),
                   hir_FunctionCall(hir_MemberAccess(to_variable(id), 0),
                                    Append(args, hir_MemberAccess(to_variable(id), 1)),
                                    function_type)>>)

\* the entry of the log for a call: the Ast built, and the monomorphised
\* arguments and function it was built from
Lowering(ir, args, function, function_type) ==
    [kind |-> "Call", definition_id |-> 0 - 1, definition |-> "None", ir |-> ir,
     args |-> args, function |-> function, function_type |-> function_type]

CallLowered(ir, args, function, r, ids) ==
    /\ requests' = Append(requests,
                          Request("call", 0, Top.node,
                                  TypedAst[TypedAst[Top.node].function].typ, FALSE,
                                  Lowering(ir, args, function, r.typ), next_id, ids))
    /\ next_id' = ids
    /\ types' = r.types
    /\ MonoReturn(ir)
    /\ UNCHANGED call

\* the match of monomorphise_call on the converted type of the function
CallConverted(r, args, function, fixed) ==
    CASE \E i \in DOMAIN fixed : fixed[i] = hir_Unreachable ->
            /\ MonoPanic
            /\ UNCHANGED <<types, next_id, requests, stack>>
      [] (\A i \in DOMAIN fixed : fixed[i] # hir_Unreachable) /\ r.typ.tag = "HFn" ->
            CallLowered(hir_FunctionCall(function, fixed, r.typ), args, function, r,
                        next_id)
      [] (\A i \in DOMAIN fixed : fixed[i] # hir_Unreachable) /\ r.typ.tag = "HTuple"
            /\ r.typ.fields[1].tag = "HFn" ->
            CallLowered(ClosureCall(function, fixed, r.typ.fields[1], next_id),
                        args, function, r, next_id + 1)
      [] OTHER ->
            /\ MonoPanic
            /\ types' = r.types
            /\ UNCHANGED <<next_id, requests, stack>>

\* the arguments and the function monomorphised: fix_arg_mutability, then
\* the type of the function is converted
CallMonomorphised(args, function) ==
    CallConverted(convert_type(TypedAst[TypedAst[Top.node].function].typ,
                               types, type_bindings, monomorphisation_bindings),
                  args, function, fix_arg_mutability(args, function))

\* monomorphise_call: the arguments, then the function, then its type
MonomorphiseCall ==
    /\ Visiting("FunctionCall")
    /\ ~MonoPanicked
    /\ CASE Top.pc < Len(TypedAst[Top.node].args) ->
                /\ MonoDescend(TypedAst[Top.node].args[Top.pc + 1])
                /\ UNCHANGED <<call, types, next_id, requests>>
         [] Top.pc = Len(TypedAst[Top.node].args) ->
                /\ MonoDescend(TypedAst[Top.node].function)
                /\ UNCHANGED <<call, types, next_id, requests>>
         [] OTHER ->
                CallMonomorphised(SubSeq(Top.values, 1, Len(TypedAst[Top.node].args)),
                                  Top.values[Len(Top.values)])
    /\ UNCHANGED <<monomorphisation_bindings, definitions, impl_vars, typed_program>>

\* Context.definitions, next_id and the log while patterns are bound
Binding(defs, ids, log) == [definitions |-> defs, next_id |-> ids, requests |-> log]

\* fresh_variable or fresh_definition, then desugar_pattern of the pattern
BindPattern(pattern, typ, mutable, st) ==
    Binding(desugar_pattern(pattern, st.next_id, typ, mutable, st.definitions),
            st.next_id + 1,
            Append(st.requests,
                   Request("bind", TypedAst[pattern].definition, pattern, typ, FALSE,
                           IF mutable THEN Mutable(st.next_id, "None")
                           ELSE Normal(st.next_id, "None"),
                           st.next_id, st.next_id + 1)))

RECURSIVE BindParameters(_, _, _)

\* fmap(&lambda.args, ...): each parameter is bound to a fresh variable
BindParameters(args, i, st) ==
    IF i > Len(args) THEN st
    ELSE BindParameters(args, i + 1,
            BindPattern(args[i],
                        follow_all_bindings(TypedAst[args[i]].typ, type_bindings,
                                            monomorphisation_bindings),
                        pattern_is_mutable(args[i]), st))

StoreBinding(st) ==
    /\ definitions' = st.definitions
    /\ next_id' = st.next_id
    /\ requests' = st.requests

\* get_function_type accepts a function or a closure whose first field is one
IsFunctionType(t) ==
    \/ t.tag = "HFn"
    \/ t.tag = "HTuple" /\ t.fields # <<>> /\ t.fields[1].tag = "HFn"

\* monomorphise_lambda with its type converted: the parameters are bound and
\* the body is monomorphised
LambdaConverted(r) ==
    IF IsFunctionType(r.typ)
    THEN /\ types' = r.types
         /\ StoreBinding(BindParameters(TypedAst[Top.node].args, 1,
                                  Binding(definitions, next_id, requests)))
         /\ MonoDescend(TypedAst[Top.node].body)
         /\ UNCHANGED call
    ELSE /\ MonoPanic
         /\ UNCHANGED <<types, definitions, next_id, requests, stack>>

\* monomorphise_lambda
MonomorphiseLambda ==
    /\ Visiting("Lambda")
    /\ ~MonoPanicked
    /\ IF Top.pc = 0
       THEN LambdaConverted(
                convert_type(follow_all_bindings(TypedAst[Top.node].typ, type_bindings,
                                                 monomorphisation_bindings),
                             types, type_bindings, monomorphisation_bindings))
       ELSE /\ MonoReturn(hir_Lambda(Top.node, LambdaArgs(Top.node)))
            /\ UNCHANGED <<call, types, definitions, next_id, requests>>
    /\ UNCHANGED <<monomorphisation_bindings, impl_vars, typed_program>>

\* monomorphise_definition: a function is skipped until it is referred to,
\* any other right-hand side is compiled and its pattern bound
MonomorphiseDefinition ==
    /\ Visiting("Definition")
    /\ ~MonoPanicked
    /\ CASE TypedAst[TypedAst[Top.node].expr].kind = "Lambda" ->
                /\ MonoReturn(hir_Ast(Top.node))
                /\ UNCHANGED <<definitions, next_id, requests>>
         [] TypedAst[TypedAst[Top.node].expr].kind # "Lambda" /\ Top.pc = 0 ->
                /\ MonoDescend(TypedAst[Top.node].expr)
                /\ UNCHANGED <<definitions, next_id, requests>>
         [] OTHER ->
                /\ StoreBinding(BindPattern(TypedAst[Top.node].pattern,
                            follow_all_bindings(
                                TypedAst[TypedAst[Top.node].pattern].typ,
                                type_bindings, monomorphisation_bindings),
                            TypedAst[Top.node].mutable,
                            Binding(definitions, next_id, requests)))
                /\ MonoReturn(hir_Ast(Top.node))
    /\ UNCHANGED <<call, types, monomorphisation_bindings, impl_vars, typed_program>>

\* the impl the type checker resolved for each of the three constraints of
\* the top-level statements, the type of the statement's argument with it
Resolutions == [1 .. 3 -> DOMAIN ImplInfos]

\* the binding of the closure environment of the argument of ap
Environments == {Bound(UnitType), Bound(IntType), Unbound(INITIAL_LEVEL)}

\* cache.type_bindings after inference: 1 to 3 are the generalised variables
\* of show, f and q; 4 to 8 instantiate them at the calls of f, show, q and
\* the two calls of f in the impls; 9 and 10 instantiate show in f and f in q;
\* 11 is the generalised variable of puts and 12 to 14 instantiate it; 15 is
\* the generalised environment of the parameter of ap and 16 instantiates it
MonoCache(c, e) ==
    [id \in MonoTypeVariableIds |->
        CASE id \in 1 .. 3 -> Unbound(INITIAL_LEVEL + 1)
          [] id \in 4 .. 6 -> Bound(ImplTypes[c[id - 3]])
          [] id \in 7 .. 8 -> Bound(BoolType)
          [] id = 9 -> Bound(TypeVariable(2))
          [] id = 10 -> Bound(TypeVariable(3))
          [] id = 11 -> Unbound(INITIAL_LEVEL + 1)
          [] id = 12 -> Bound(ImplTypes[c[2]])
          [] id = 13 -> Bound(ImplTypes[c[1]])
          [] id = 14 -> Bound(IntType)
          [] id = 15 -> Unbound(INITIAL_LEVEL + 1)
          [] id = 16 -> e]

\* the constraint of the top-level statements that the type checker left
\* without an impl: none of them (0), or the one of f, show or q
Unresolved == 0 .. 3

\* cache[variable_id].required_impls
MonoRequiredImpls(c, u) ==
    [v \in MonoNodes |->
        CASE v = 22 /\ u # 1 -> <<RequiredImpl(Indirect(22, 1), c[1])>>
          [] v = 26 /\ u # 2 -> <<RequiredImpl(Direct(26), c[2])>>
          [] v = 29 /\ u # 3 -> <<RequiredImpl(Indirect(29, 2), c[3])>>
          [] v = 45 -> <<RequiredImpl(Indirect(45, 1), 2)>>
          [] v = 53 -> <<RequiredImpl(Indirect(53, 1), 2)>>
          [] OTHER -> <<>>]

InitMono ==
    /\ \E c \in Resolutions, u \in Unresolved, e \in Environments :
            /\ type_bindings = MonoCache(c, e)
            /\ required_impls = MonoRequiredImpls(c, u)
    /\ bindings = UnificationBindings_empty
    /\ call = NoCall(type_bindings)
    /\ performs = 0
    /\ current_level = INITIAL_LEVEL
    /\ refs = [n \in {} |-> NoDefinition]
    /\ typed = [n \in {} |-> FALSE]
    /\ info_typ = [d \in {} |-> FALSE]
    /\ stack = <<Enter(1)>>
    /\ Context_new

NextMono ==
    \/ MonomorphiseLiteral
    \/ MonomorphiseSequence
    \/ MonomorphiseCall
    \/ MonomorphiseLambda
    \/ MonomorphiseDefinition
    \/ MonomorphiseVariable
    \/ MonomorphiseNonlocalDefinition

SpecMono == InitMono /\ [][NextMono]_vars

(***************************************************************************)
(* Properties of the definition table and of static dispatch.              *)
(***************************************************************************)
SameKey(a, b) ==
    /\ a.op = "request" /\ b.op = "request"
    /\ a.id = b.id /\ a.typ = b.typ

Returned(r) == r.definition.kind # "Pending"

\* the same variant of Definition with the same IR definition id
SameDefinition(a, b) == a.kind = b.kind /\ a.definition_id = b.definition_id

\* C9: of two monomorphise_definition_id requests with the same source
\* definition id and the same fully-followed type, the second is answered
\* from Context.definitions, allocating no IR definition id and compiling
\* nothing, and once both have returned they returned the same Definition
\* with the same IR definition id.
C9_OneVariant ==
    \A i, j \in DOMAIN requests :
        i < j /\ SameKey(requests[i], requests[j]) =>
            /\ requests[j].hit
            /\ requests[j].ids_after = requests[j].ids_before
            /\ Returned(requests[i]) /\ Returned(requests[j]) =>
                    SameDefinition(requests[i].definition, requests[j].definition)

IsDispatch == call.op = "monomorphise_variable"

\* monomorphise_variable chose definition d for the variable: it requested
\* d from monomorphise_definition_id unless it panicked
Chose(d) ==
    /\ call.result.definition_id = d
    /\ ~MonoPanicked =>
            \E i \in DOMAIN requests :
                /\ requests[i].op = "request"
                /\ requests[i].variable_id = call.result.variable
                /\ requests[i].id = d

\* the impls the type checker bound directly at the occurrence v
DirectImpls(v) ==
    {ri \in Range(required_impls[v]) : ri.callsite = Direct(v)}

RECURSIVE ForwardedImpl(_, _, _)

\* the impl that reaches constraint k of the definition requested by the
\* j-th caller: the one the type checker bound at that call site, or the
\* one forwarded to that call site from the constraint of the definition
\* the call site is in
ForwardedImpl(cs, j, k) ==
    IF \E ri \in Range(required_impls[cs[j].node]) :
            ri.callsite = Indirect(cs[j].node, k)
    THEN (CHOOSE ri \in Range(required_impls[cs[j].node]) :
            ri.callsite = Indirect(cs[j].node, k)).binding
    ELSE IF /\ j > 1
            /\ \E rt \in Range(DefinitionInfos[cs[j - 1].id].required_traits) :
                    rt.callsite = Indirect(cs[j].node, k)
    THEN ForwardedImpl(cs, j - 1,
            (CHOOSE rt \in Range(DefinitionInfos[cs[j - 1].id].required_traits) :
                    rt.callsite = Indirect(cs[j].node, k)).id)
    ELSE 0

\* C10: a variable occurrence v with a required impl Direct(v) bound to impl
\* I is dispatched to find_method_in_impl(v, I) and not to the trait member
\* it was resolved to; an occurrence v in the body of a definition compiled
\* for a caller, where the definition has a required trait with call site
\* Direct(v), is dispatched to the method of the impl that the caller's
\* Indirect entry for (call-site variable, constraint id) forwards.
C10_StaticDispatch ==
    IsDispatch =>
        /\ \A ri \in DirectImpls(call.result.variable) :
                /\ Chose(find_method_in_impl(call.result.variable, ri.binding))
                /\ call.result.definition_id # TypedAst[call.result.variable].definition
        /\ call.result.callers # <<>> =>
                \A rt \in Range(DefinitionInfos[Last(call.result.callers).id].required_traits) :
                    rt.callsite = Direct(call.result.variable) =>
                        Chose(find_method_in_impl(call.result.variable,
                                ForwardedImpl(call.result.callers,
                                              Len(call.result.callers), rt.id)))

\* show in the body of f is reached through q and f, the impl for i32 being
\* forwarded twice, after the top-level show was dispatched directly
C10_Witness ==
    /\ IsDispatch
    /\ ~MonoPanicked
    /\ call.result.variable = 10
    /\ Len(call.result.callers) = 2
    /\ call.result.callers[1].node = 29
    /\ call.result.definition_id = 2
    /\ \E i \in DOMAIN requests :
            /\ requests[i].op = "request"
            /\ requests[i].variable_id = 26
            /\ requests[i].id \in {2, 3}

\* a required trait of definition id, of a trait with a member definition,
\* that has no entry under (variable_id, constraint id) in the scope
UnresolvedIn(id, variable_id, indirect) ==
    \E rt \in Range(DefinitionInfos[id].required_traits) :
        /\ TraitInfos[rt.trait_id].definitions # <<>>
        /\ <<variable_id, rt.id>> \notin DOMAIN indirect

\* C11: a definition whose required trait has no entry under (requesting
\* variable id, constraint id) in the innermost indirect impl scope is never
\* compiled: the request for it panics, and nothing is stored, allocated or
\* logged for it.  The scope of the i-th request being compiled is the i-th
\* map of the stack.
C11_UnresolvedFatal ==
    /\ \A i \in DOMAIN Callers :
            ~UnresolvedIn(Callers[i].id, Callers[i].node, indirect_impl_mappings[i])
    /\ /\ IsDispatch
       /\ stack # <<>>
       /\ Top.node = call.result.variable
       /\ Top.pc = 0
       /\ UnresolvedIn(call.result.definition_id, call.result.variable,
                       Last(indirect_impl_mappings))
       => /\ MonoPanicked
          /\ \A key \in DOMAIN definitions : key[1] # call.result.definition_id
          /\ \A i \in DOMAIN requests :
                requests[i].op = "request" =>
                    requests[i].id # call.result.definition_id

\* the request for q from the top-level statement, whose constraint the type
\* checker left without an impl, has panicked after f was compiled
C11_Witness ==
    /\ IsDispatch
    /\ MonoPanicked
    /\ call.result.variable = 29
    /\ call.result.definition_id = 9
    /\ UnresolvedIn(9, 29, Last(indirect_impl_mappings))
    /\ next_id > 0

(***************************************************************************)
(* Specification SpecChain: the routines that follow a chain of type       *)
(* variable bindings, one action per invocation of the recursive function. *)
(* The record call holds the invocation in progress: t2 is its argument,   *)
(* pairs the number of bindings followed so far.                           *)
(***************************************************************************)

\* a cache whose variables 1 .. n form one chain of bindings, the last
\* variable unbound, bound to i32, or bound back to the first
ChainCache(n, end) ==
    [id \in 1 .. n |->
        CASE id < n -> Bound(TypeVariable(id + 1))
          [] id = n /\ end = "unbound" -> Unbound(INITIAL_LEVEL)
          [] id = n /\ end = "i32" -> Bound(IntType)
          [] id = n /\ end = "cycle" -> Bound(TypeVariable(1))]

\* chains of 1 and 2 variables, and one with RECURSION_LIMIT + 1 bindings
ChainCaches ==
    {ChainCache(n, end) : n \in {1, 2}, end \in {"unbound", "i32", "cycle"}}
        \cup {ChainCache(RECURSION_LIMIT + 2, "unbound")}

TypeCheckerRoutines ==
    {"follow_bindings_in_cache", "follow_bindings_in_cache_and_map", "occurs",
     "bind_typevars"}
MonomorphiserRoutines == {"find_binding", "follow_all_bindings", "convert_type"}
ChainRoutines == TypeCheckerRoutines \cup MonomorphiserRoutines

\* the type checker's routines are followed for one binding more than the
\* limit of the monomorphiser, and no further
MaxLinks == RECURSION_LIMIT + 1

\* the invocation in progress: the fuel of the function, and the fuel of the
\* find_binding it has called (-1 outside find_binding)
Walk(status, fuel, inner) == [status |-> status, fuel |-> fuel, inner |-> inner]

Walking(routine) ==
    /\ call.op = routine
    /\ call.err = ""
    /\ call.result.status = "running"

\* the invocation recurses on typ, having followed one more binding
Recurse(typ, w) == call' = [call EXCEPT !.t2 = typ, !.pairs = @ + 1, !.result = w]
\* the invocation goes on with typ, no binding followed
Continue(typ, w) == call' = [call EXCEPT !.t2 = typ, !.result = w]
Finish(typ) == call' = [call EXCEPT !.t2 = typ, !.result.status = "returned"]
Abort == call' = [call EXCEPT !.err = "panic"]

chain_rest == <<type_bindings, bindings, performs, current_level, infer_vars, mono_vars>>

InitChain ==
    /\ type_bindings \in ChainCaches
    /\ bindings = UnificationBindings_empty
    /\ call = NoCall(type_bindings)
    /\ performs = 0
    /\ current_level = INITIAL_LEVEL
    /\ NoInference
    /\ NoMonomorphisation

\* a routine is called on the first variable of the chain
StartChain(routine) ==
    /\ call.op = "none"
    /\ call' = Call(routine, TypeVariable(1), TypeVariable(1), "", 0, type_bindings,
                    UnificationBindings_empty, Walk("running", RECURSION_LIMIT, 0 - 1))
    /\ UNCHANGED chain_rest

\* follow_bindings_in_cache
FollowBindingsInCache ==
    /\ Walking("follow_bindings_in_cache")
    /\ call.pairs < MaxLinks
    /\ IF call.t2.tag \in {"Var", "Ref"} /\ type_bindings[call.t2.id].bound
       THEN Recurse(type_bindings[call.t2.id].typ, call.result)
       ELSE Finish(call.t2)
    /\ UNCHANGED chain_rest

\* the match on find_binding of the three type checker routines that use it
FollowFoundBinding(b) ==
    IF b.bound THEN Recurse(b.typ, call.result) ELSE Finish(call.t2)

\* follow_bindings_in_cache_and_map
FollowBindingsInCacheAndMap ==
    /\ Walking("follow_bindings_in_cache_and_map")
    /\ call.pairs < MaxLinks
    /\ IF call.t2.tag \in {"Var", "Ref"}
       THEN FollowFoundBinding(find_binding(call.t2.id, bindings.bindings, type_bindings))
       ELSE Finish(call.t2)
    /\ UNCHANGED chain_rest

\* occurs, and typevars_match for a type variable
Occurs ==
    /\ Walking("occurs")
    /\ call.pairs < MaxLinks
    /\ IF call.t2.tag \in {"Var", "Ref"}
       THEN FollowFoundBinding(find_binding(call.t2.id, bindings.bindings, type_bindings))
       ELSE Finish(call.t2)
    /\ UNCHANGED chain_rest

\* bind_typevars, and bind_typevar for a type variable, with no type_bindings
BindTypevars ==
    /\ Walking("bind_typevars")
    /\ call.pairs < MaxLinks
    /\ IF call.t2.tag \in {"Var", "Ref"} /\ type_bindings[call.t2.id].bound
       THEN Recurse(type_bindings[call.t2.id].typ, call.result)
       ELSE Finish(call.t2)
    /\ UNCHANGED chain_rest

\* the match arms of Context::find_binding on a binding found
MatchBinding(binding) ==
    IF binding.tag \in {"Var", "Ref"} THEN [res |-> "Next", id |-> binding.id]
    ELSE Ok(binding)

\* one invocation of Context::find_binding: a panic, the variable of the
\* next invocation, the type found, or the unbound variable
FindBindingInvocation(id, fuel, cache, mb) ==
    IF fuel = 0 THEN PanicResult
    ELSE IF cache[id].bound THEN MatchBinding(cache[id].typ)
    ELSE IF InnermostBinding(mb, id) = 0 THEN Err(id)
    ELSE MatchBinding(mb[InnermostBinding(mb, id)][id])

\* Context::find_binding called by itself
FoundBinding(o, w) ==
    CASE o.res = "Panic" -> Abort
      [] o.res = "Next" -> Recurse(TypeVariable(o.id), Walk("running", w.fuel - 1, w.inner))
      [] o.res = "Ok" -> Finish(o.typ)
      [] o.res = "Err" -> Finish(TypeVariable(o.id))

ContextFindBinding ==
    /\ Walking("find_binding")
    /\ FoundBinding(FindBindingInvocation(call.t2.id, call.result.fuel, type_bindings,
                                          monomorphisation_bindings),
                    call.result)
    /\ UNCHANGED chain_rest

\* follow_all_bindings_inner and convert_type_inner on entry: the check of
\* the fuel, then find_binding for a type variable with the fuel that is left
EnterInner(typ, w, done) ==
    CASE w.fuel = 0 -> Abort
      [] w.fuel > 0 /\ typ.tag = "Var" ->
            Continue(typ, Walk("running", w.fuel - 1, w.fuel - 1))
      [] OTHER -> Finish(done)

\* find_binding called by follow_all_bindings_inner or convert_type_inner:
\* on Ok the caller recurses on the binding with its own fuel, on Err it
\* returns the variable (unbound) of follow_all_bindings_inner or recurses
\* on UNBOUND_TYPE (convert_type_inner)
InnerFound(o, w, recurse_on_err) ==
    CASE o.res = "Panic" -> Abort
      [] o.res = "Next" -> Recurse(TypeVariable(o.id), Walk("running", w.fuel, w.inner - 1))
      [] o.res = "Ok" -> Recurse(o.typ, Walk("running", w.fuel, 0 - 1))
      [] o.res = "Err" /\ recurse_on_err ->
            Continue(UNBOUND_TYPE, Walk("running", w.fuel, 0 - 1))
      [] o.res = "Err" /\ ~recurse_on_err -> Finish(TypeVariable(o.id))

\* follow_all_bindings
FollowAllBindings ==
    /\ Walking("follow_all_bindings")
    /\ IF call.result.inner < 0
       THEN EnterInner(call.t2, call.result, call.t2)
       ELSE InnerFound(FindBindingInvocation(call.t2.id, call.result.inner,
                                             type_bindings, monomorphisation_bindings),
                       call.result, FALSE)
    /\ UNCHANGED chain_rest

\* the type convert_type_inner returns for a primitive
ConvertedPrimitive(typ) ==
    IF typ.tag = "Prim"
    THEN convert_primitive_type(typ, type_bindings, monomorphisation_bindings)
    ELSE typ

\* convert_type
ConvertTypeChain ==
    /\ Walking("convert_type")
    /\ IF call.result.inner < 0
       THEN EnterInner(call.t2, call.result, ConvertedPrimitive(call.t2))
       ELSE InnerFound(FindBindingInvocation(call.t2.id, call.result.inner,
                                             type_bindings, monomorphisation_bindings),
                       call.result, TRUE)
    /\ UNCHANGED chain_rest

NextChain ==
    \/ \E routine \in ChainRoutines : StartChain(routine)
    \/ FollowBindingsInCache
    \/ FollowBindingsInCacheAndMap
    \/ Occurs
    \/ BindTypevars
    \/ ContextFindBinding
    \/ FollowAllBindings
    \/ ConvertTypeChain

SpecChain == InitChain /\ [][NextChain]_vars

\* C12: every routine that follows a chain of type variable bindings follows
\* at most RECURSION_LIMIT (500) bindings, and then stops with an error.
C12_BoundedChains ==
    call.op \in ChainRoutines => call.pairs <= RECURSION_LIMIT

\* the part of C12 that holds: the routines of the monomorphiser
C12_MonomorphiserBounded ==
    call.op \in MonomorphiserRoutines => call.pairs <= RECURSION_LIMIT

\* C13: the four impl mapping stacks always have the same depth, which is
\* one (the scope Context::new made) more than the number of definitions
\* being compiled: never empty, one deeper inside each
\* monomorphise_definition_id that compiles, and back at the depth of the
\* call when it returns.
C13_ImplStacksTogether ==
    /\ Len(direct_impl_mappings) = 1 + Len(Callers)
    /\ Len(indirect_impl_mappings) = Len(direct_impl_mappings)
    /\ Len(direct_given_impl_mappings) = Len(direct_impl_mappings)
    /\ Len(indirect_given_impl_mappings) = Len(direct_impl_mappings)

\* inside f, the request for the method of the impl for i32 has compiled the
\* method and returned; the stacks are back at the depth of the body of f
C13_Witness ==
    /\ Len(Callers) = 1
    /\ Len(indirect_given_impl_mappings) = 2
    /\ \E i \in DOMAIN requests :
            /\ requests[i].op = "request"
            /\ requests[i].id = 2
            /\ ~requests[i].hit
            /\ Returned(requests[i])

\* a request that created an IR definition for the extern id
DeclaresExtern(r, id) ==
    r.op = "request" /\ r.id = id /\ r.ids_after # r.ids_before

\* C14: an extern definition is declared at most once, whatever the types
\* it is requested at and their order: at most one request for it takes an
\* IR definition id, and all its entries in the definition table hold the
\* same definition, the one with that id.
C14_ExternOnce ==
    \A id \in DOMAIN DefinitionInfos :
        DefinitionInfos[id].kind = "Extern" =>
            /\ \A i, j \in DOMAIN requests :
                    DeclaresExtern(requests[i], id) /\ DeclaresExtern(requests[j], id)
                        => i = j
            /\ \A k1, k2 \in DOMAIN definitions :
                    k1[1] = id /\ k2[1] = id => definitions[k1] = definitions[k2]
            /\ \A k \in DOMAIN definitions :
                    k[1] = id =>
                        \E i \in DOMAIN requests :
                            /\ DeclaresExtern(requests[i], id)
                            /\ definitions[k] = Normal(requests[i].ids_before, "Some")

\* puts was requested at bool -> i32, then at i32 -> i32, then at
\* bool -> i32 again
C14_Witness ==
    /\ <<12, Fn1(BoolType)>> \in DOMAIN definitions
    /\ <<12, Fn1(IntType)>> \in DOMAIN definitions
    /\ \E i, j, k \in DOMAIN requests :
            /\ i < j /\ j < k
            /\ requests[i].op = "request" /\ requests[i].id = 12
            /\ requests[i].typ = Fn1(BoolType)
            /\ requests[j].op = "request" /\ requests[j].id = 12
            /\ requests[j].typ = Fn1(IntType) /\ ~requests[j].hit
            /\ requests[k].op = "request" /\ requests[k].id = 12
            /\ requests[k].typ = Fn1(BoolType) /\ requests[k].hit

\* the environment followed as empty_closure_environment follows it
FollowedEnvironment(typ) ==
    follow_bindings_shallow(typ.environment, type_bindings, monomorphisation_bindings)

\* the tuple of the function type that takes the environment as its last
\* parameter and the environment type
IsClosureType(result, typ) ==
    /\ result.tag = "HTuple"
    /\ Len(result.fields) = 2
    /\ result.fields[1].tag = "HFn"
    /\ Len(result.fields[1].parameters) = Len(typ.parameters) + 1
    /\ Last(result.fields[1].parameters) = result.fields[2]

\* a function type with as many parameters as the source type
IsPlainFunctionType(result, typ) ==
    /\ result.tag = "HFn"
    /\ Len(result.parameters) = Len(typ.parameters)

\* C15: convert_type lowers a function type to the closure tuple if and only
\* if its environment follows to a type other than unit, and to a plain
\* function type with the original parameters in every other case.
C15_ClosureLowering ==
    Lowered /\ call.t1.tag = "Fn" =>
        IF /\ FollowedEnvironment(call.t1).res = "Ok"
           /\ FollowedEnvironment(call.t1).typ # UnitType
        THEN IsClosureType(call.result, call.t1)
        ELSE IsPlainFunctionType(call.result, call.t1)

\* what the code does: the closure tuple unless the environment follows to
\* unit, an environment that ends unbound included
C15_ClosureUnlessUnit ==
    Lowered /\ call.t1.tag = "Fn" =>
        IF /\ FollowedEnvironment(call.t1).res = "Ok"
           /\ FollowedEnvironment(call.t1).typ = UnitType
        THEN IsPlainFunctionType(call.result, call.t1)
        ELSE IsClosureType(call.result, call.t1)

\* a function type whose environment ends unbound was lowered to a closure
\* tuple with the unit environment
C15_UnboundEnvironment ==
    /\ Lowered
    /\ call.t1.tag = "Fn"
    /\ FollowedEnvironment(call.t1).res = "Err"
    /\ IsClosureType(call.result, call.t1)
    /\ call.result.fields[2] = hir_Primitive("Unit")

(***************************************************************************)
(* Properties of call lowering.                                            *)
(***************************************************************************)
\* a direct call of the monomorphised function with the arguments passed
IsDirectCall(l, passed) ==
    /\ l.ir.kind = "FunctionCall"
    /\ l.ir.function = l.function
    /\ l.ir.args = passed
    /\ l.ir.function_type = l.function_type

\* the closure bound once to the fresh definition id, field 0 called with
\* the arguments passed followed by field 1
IsClosureCall(l, passed, id) ==
    /\ l.ir.kind = "Sequence"
    /\ Len(l.ir.statements) = 2
    /\ l.ir.statements[1] = hir_Definition(id, l.function)
    /\ l.ir.statements[2].kind = "FunctionCall"
    /\ l.ir.statements[2].function = hir_MemberAccess(to_variable(id), 0)
    /\ l.ir.statements[2].args =
            passed \o <<hir_MemberAccess(to_variable(id), 1)>>
    /\ l.ir.statements[2].function_type = l.function_type.fields[1]

\* the id a call took is fresh: no definition bound or requested before the
\* call holds it
FreshId(i) ==
    \A j \in 1 .. i - 1 :
        /\ requests[j].definition.definition_id # requests[i].ids_before
        /\ requests[j].op = "call" /\ requests[j].ids_after # requests[j].ids_before
                => requests[j].ids_before # requests[i].ids_before

IsCallLowering(i, passed) ==
    IF requests[i].definition.function_type.tag = "HTuple"
    THEN /\ IsClosureCall(requests[i].definition, passed, requests[i].ids_before)
         /\ requests[i].ids_after = requests[i].ids_before + 1
         /\ FreshId(i)
    ELSE /\ IsDirectCall(requests[i].definition, passed)
         /\ requests[i].ids_after = requests[i].ids_before

TakesMutably(function, j) ==
    /\ function.kind \in {"Variable", "Lambda"}
    /\ j <= Len(function.args)
    /\ function.args[j]

\* the arguments of a call as it passes them: the argument for a mutable
\* parameter is a load, and the address it loads from is passed
PassedArgs(l) ==
    [j \in DOMAIN l.args |->
        IF TakesMutably(l.function, j) THEN l.args[j].inner ELSE l.args[j]]

TypeArgs(typ) == IF typ.tag = "App" THEN typ.args ELSE <<>>
TypeInfoOf(typ) == TypeInfos[IF typ.tag = "App" THEN typ.con.id ELSE typ.id]
IsSumType(typ) ==
    /\ typ.tag = "UD" \/ (typ.tag = "App" /\ typ.con.tag = "UD")
    /\ TypeInfoOf(typ).body = "Union"
    /\ TypeInfoOf(typ).variants # <<>>
    /\ Len(TypeInfoOf(typ).args) = Len(TypeArgs(typ))

\* a field of a variant with the type arguments substituted
RECURSIVE Substitute(_, _, _)
Substitute(field, params, args) ==
    CASE field.tag = "Var" /\ (\E i \in DOMAIN params : params[i] = field.id) ->
            args[CHOOSE i \in DOMAIN params : params[i] = field.id]
      [] field.tag = "App" ->
            TypeApplication(Substitute(field.con, params, args),
                            [i \in DOMAIN field.args |->
                                Substitute(field.args[i], params, args)])
      [] OTHER -> field

\* the table of sizes: integers by width, float 8, bool, char and unit 1,
\* pointers and functions the word size; a type variable has the size of
\* what it follows to and a user-defined type the size of its body
TableSize(typ) ==
    CASE typ.tag = "Prim" /\ typ.p = "IntegerType"
            /\ typ.kind.kind \in {"I8", "U8"} -> 1
      [] typ.tag = "Prim" /\ typ.p = "IntegerType"
            /\ typ.kind.kind \in {"I16", "U16"} -> 2
      [] typ.tag = "Prim" /\ typ.p = "IntegerType"
            /\ typ.kind.kind \in {"I32", "U32"} -> 4
      [] typ.tag = "Prim" /\ typ.p = "IntegerType"
            /\ typ.kind.kind \in {"I64", "U64", "Isz", "Usz"} -> 8
      [] typ.tag = "Prim" /\ typ.p = "float" -> 8
      [] typ.tag = "Prim" /\ typ.p \in {"bool", "char", "unit"} -> 1
      [] typ.tag = "Prim" /\ typ.p = "Ptr" -> 8
      [] typ.tag \in {"Fn", "Ref"} -> 8
      [] OTHER -> size_of_type(typ, type_bindings, monomorphisation_bindings)

RECURSIVE SumTable(_, _)
SumTable(typs, i) ==
    IF i > Len(typs) THEN 0 ELSE TableSize(typs[i]) + SumTable(typs, i + 1)

\* the fields of each variant of a sum type, and the size of each variant
VariantFields(typ) ==
    [v \in DOMAIN TypeInfoOf(typ).variants |->
        [f \in DOMAIN TypeInfoOf(typ).variants[v] |->
            Substitute(TypeInfoOf(typ).variants[v][f], TypeInfoOf(typ).args,
                       TypeArgs(typ))]]
VariantSize(typ, v) == SumTable(VariantFields(typ)[v], 1)
IsLargest(typ, v) ==
    \A w \in DOMAIN VariantFields(typ) : VariantSize(typ, w) <= VariantSize(typ, v)

\* the u8 tag followed by the fields of the variant, each lowered
IsLayoutOf(result, typ, v) ==
    /\ result.tag = "HTuple"
    /\ Len(result.fields) = 1 + Len(VariantFields(typ)[v])
    /\ result.fields[1] = hir_Integer("U8")
    /\ \A f \in DOMAIN VariantFields(typ)[v] :
            result.fields[f + 1] =
                convert_type(VariantFields(typ)[v][f], EmptyMap, type_bindings,
                             monomorphisation_bindings).typ

NoPanicSize(typ) == size_of_type(typ, type_bindings, monomorphisation_bindings) >= 0

\* C17: the size of a sum type with at least one variant is 1 plus the
\* largest sum of the sizes of the fields of a variant, and convert_type
\* lays it out as the u8 tag followed by the fields of a largest variant.
C17_UnionSize ==
    /\ \A typ \in ConvertTypes :
            IsSumType(typ) /\ NoPanicSize(typ) =>
                \E v \in DOMAIN VariantFields(typ) :
                    /\ IsLargest(typ, v)
                    /\ size_of_type(typ, type_bindings, monomorphisation_bindings)
                            = 1 + VariantSize(typ, v)
    /\ Lowered /\ IsSumType(call.t1) =>
            \E v \in DOMAIN VariantFields(call.t1) :
                /\ IsLargest(call.t1, v)
                /\ IsLayoutOf(call.result, call.t1, v)

\* Shape, with two variants of 8 bytes, was lowered to the tag and the two
\* i32 of Rect; its size is 9
C17_Witness ==
    /\ Lowered
    /\ call.t1 = UserDefined(6)
    /\ call.result = hir_Tuple(<<hir_Integer("U8"), hir_Integer("I32"),
                                 hir_Integer("I32")>>)
    /\ size_of_type(call.t1, type_bindings, monomorphisation_bindings) = 9

\* Maybe of a type variable that ends unbound was lowered: the variable has
\* the size of unit
C17_WitnessUnbound ==
    /\ Lowered
    /\ call.t1 = TypeApplication(UserDefined(2), <<V2>>)
    /\ EndsUnbound(V2)
    /\ size_of_type(call.t1, type_bindings, monomorphisation_bindings) = 2

(***************************************************************************)
(* Refinement of definitions: refine/context.rs.                           *)
(*                                                                         *)
(* RefinementContext.definitions is the cache of the refinements of the    *)
(* definitions seen so far.  The definitions of the program refined:       *)
(*                                                                         *)
(*     1  r = fn x -> r (s x)         refers to r and s                    *)
(*     2  s = fn x -> e (r x)         refers to e and r                    *)
(*     3  extern e                                                         *)
(*     4  x                           a parameter                          *)
(*     5  +  : i32 -> i32 -> i32      a builtin operator                   *)
(*     6  C                           a type constructor                   *)
(*     7  t = 1 + 2                   refers to +                          *)
(*                                                                         *)
(* A Refinements value is modelled by the constant it holds and the number *)
(* of bindings RefinementContext::bind has combined into it.  The stack is *)
(* the chain of definitions being refined; requests logs the lookups.      *)
(***************************************************************************)
RefineInfo(kind, name, typ, references) ==
    [kind |-> kind, name |-> name, typ |-> typ, references |-> references]

RefineInfos ==
    << RefineInfo("Definition", "r", Fn1(IntType), <<1, 2>>),
       RefineInfo("Definition", "s", Fn1(IntType), <<3, 1>>),
       RefineInfo("Extern", "e", Fn1(IntType), <<>>),
       RefineInfo("Parameter", "x", IntType, <<>>),
       RefineInfo("Definition", "+", Fn2(IntType), <<>>),
       RefineInfo("TypeConstructor", "C", IntType, <<>>),
       RefineInfo("Definition", "t", IntType, <<5>>) >>

\* the operators check_builtin knows
BuiltinNames == {"+", "-", "*", "/", "<", "<=", ">", ">=", "==", "!="}

MaxLookups == 3    \* references and definitions the walk of the program reaches

\* Refinements::from_value(variable) for the constant named name$id
from_value(id) == [value |-> "Pure", constant |-> id, bindings |-> 0]
\* Refinements::impure()
impure == [value |-> "Impure", constant |-> 0, bindings |-> 0]
\* Refinements::function, as make_builtin returns it
builtin_function(id) == [value |-> "Function", constant |-> id, bindings |-> 0]

\* the mutant of add_definition that overwrites the entry
add_definition_insert(defs, id, refinements) == MapInsert(defs, id, refinements)

\* self.definitions.entry(id).or_insert(refinements)
add_definition(defs, id, refinements) ==
    IF id \in DOMAIN defs THEN defs ELSE MapInsert(defs, id, refinements)

\* RefinementContext::bind: the binding is combined into the entries that exist
bind(defs, ids) ==
    [id \in DOMAIN defs |->
        IF id \in ids THEN [defs[id] EXCEPT !.bindings = @ + 1] ELSE defs[id]]

\* check_builtin: a function of two integers named like an operator
IsIntegerType(typ) == typ.tag = "Prim" /\ typ.p = "IntegerType"
check_builtin(info) ==
    /\ info.typ.tag = "Fn"
    /\ Len(info.typ.parameters) = 2
    /\ IsIntegerType(info.typ.parameters[1])
    /\ IsIntegerType(info.typ.parameters[2])
    /\ info.name \in BuiltinNames

\* a definition being refined: the next reference of its body, and whether
\* refine_definition refines it or the walk reached its ast::Definition
RefineFrame(id, pc, direct) == [id |-> id, pc |-> pc, direct |-> direct]

\* a lookup of refine_definition and what it returned
Lookup(id, hit, value) == [id |-> id, hit |-> hit, value |-> value]

refine_rest == <<type_bindings, bindings, call, current_level, refs, typed,
                 info_typ, monomorphisation_bindings, types, impl_vars, next_id,
                 required_impls>>

InitRefine ==
    /\ type_bindings = [id \in Ids |-> Unbound(INITIAL_LEVEL)]
    /\ bindings = UnificationBindings_empty
    /\ call = NoCall(type_bindings)
    /\ performs = 0
    /\ current_level = INITIAL_LEVEL
    /\ NoInference
    /\ NoMonomorphisation

\* refine_definition returns value to the definition being refined, if any
Refined(id, hit, value) ==
    /\ requests' = Append(requests, Lookup(id, hit, value))
    /\ stack' = IF stack = <<>> THEN stack
                ELSE [stack EXCEPT ![Len(stack)].pc = @ + 1]

\* refine_definition after the lookup and check_builtin found nothing: the
\* placeholder is added, then the match on the kind of the definition
RefineUnseen(id, info, placeholder) ==
    /\ definitions' = add_definition(definitions, id, placeholder)
    /\ CASE info.kind = "Definition" ->
                /\ stack' = Append(stack, RefineFrame(id, 0, FALSE))
                /\ UNCHANGED requests
         [] info.kind = "TypeConstructor" ->
                Refined(id, FALSE, add_definition(definitions, id, placeholder)[id])
         [] info.kind = "Extern" -> Refined(id, FALSE, impure)
         [] OTHER -> Refined(id, FALSE, placeholder)

refine_definition(id) ==
    CASE id \in DOMAIN definitions ->
            /\ Refined(id, TRUE, definitions[id])
            /\ UNCHANGED definitions
      [] id \notin DOMAIN definitions /\ check_builtin(RefineInfos[id]) ->
            /\ Refined(id, FALSE, builtin_function(id))
            /\ UNCHANGED definitions
      [] OTHER -> RefineUnseen(id, RefineInfos[id], from_value(id))

Refining == stack # <<>> /\ Top.pc \in DOMAIN RefineInfos[Top.id].references

\* a variable is refined: a reference of the body being refined, or a
\* reference met by the walk of the program
RefineVariable ==
    /\ IF stack = <<>>
       THEN /\ performs < MaxLookups
            /\ performs' = performs + 1
            /\ \E id \in DOMAIN RefineInfos : refine_definition(id)
       ELSE /\ Refining
            /\ refine_definition(RefineInfos[Top.id].references[Top.pc])
            /\ UNCHANGED performs
    /\ UNCHANGED refine_rest

\* refine_pattern on the variable a definition binds
RefinePattern ==
    /\ stack # <<>>
    /\ Top.pc = 0
    /\ definitions' = add_definition(definitions, Top.id, from_value(Top.id))
    /\ stack' = [stack EXCEPT ![Len(stack)].pc = 1]
    /\ UNCHANGED <<requests, performs, refine_rest>>

\* the walk of the program reaches the ast::Definition of a definition
RefineAstDefinition ==
    /\ stack = <<>>
    /\ performs < MaxLookups
    /\ performs' = performs + 1
    /\ \E id \in DOMAIN RefineInfos :
            /\ RefineInfos[id].kind = "Definition"
            /\ ~check_builtin(RefineInfos[id])
            /\ stack' = <<RefineFrame(id, 0, TRUE)>>
    /\ UNCHANGED <<definitions, requests, refine_rest>>

\* the body is refined: the pattern is bound to it, and refine_definition
\* returns the refinements of the body with the constant as their value
RefineBound ==
    /\ stack # <<>>
    /\ Top.pc > Len(RefineInfos[Top.id].references)
    /\ definitions' = bind(definitions, {Top.id})
    /\ IF Top.direct
       THEN /\ stack' = Front(stack)
            /\ UNCHANGED requests
       ELSE /\ requests' = Append(requests, Lookup(Top.id, FALSE, from_value(Top.id)))
            /\ stack' = IF Len(stack) = 1 THEN <<>>
                        ELSE [Front(stack) EXCEPT ![Len(stack) - 1].pc = @ + 1]
    /\ UNCHANGED <<performs, refine_rest>>

NextRefine ==
    \/ RefineVariable
    \/ RefinePattern
    \/ RefineAstDefinition
    \/ RefineBound

SpecRefine == InitRefine /\ [][NextRefine]_vars /\ WF_vars(NextRefine)

(***************************************************************************)
(* Properties of the refinement cache.                                     *)
(***************************************************************************)
\* unseen 0, seen (the placeholder constant) 1, fully encoded 2
CacheState(defs, id) ==
    IF id \notin DOMAIN defs THEN 0
    ELSE IF defs[id].bindings = 0 THEN 1
    ELSE 2

HasBody(id) == RefineInfos[id].kind = "Definition" /\ ~check_builtin(RefineInfos[id])

\* refine_definition missed the cache for id and has returned
ReturnedFor(i) == ~requests[i].hit /\ HasBody(requests[i].id)

CacheForward ==
    \A id \in DOMAIN RefineInfos :
        /\ CacheState(definitions', id) >= CacheState(definitions, id)
        /\ CacheState(definitions', id) <= CacheState(definitions, id) + 1

CacheInvariant ==
    /\ \A i \in DOMAIN stack : stack[i].pc >= 1 => stack[i].id \in DOMAIN definitions
    /\ \A i, j \in DOMAIN stack : stack[i].id = stack[j].id => i = j
    /\ \A i \in DOMAIN requests :
            ReturnedFor(i) =>
                /\ CacheState(definitions, requests[i].id) = 2
                /\ \A j \in DOMAIN requests :
                        j > i /\ requests[j].id = requests[i].id =>
                            /\ requests[j].hit
                            /\ requests[j].value.value = "Pure"
                            /\ requests[j].value.bindings >= 1

IsBoundHere(id) ==
    \/ type_bindings[id].bound
    \/ \E i \in DOMAIN monomorphisation_bindings : id \in DOMAIN monomorphisation_bindings[i]
BindingHere(id) ==
    IF type_bindings[id].bound THEN type_bindings[id].typ
    ELSE monomorphisation_bindings[
            CHOOSE i \in DOMAIN monomorphisation_bindings :
                /\ id \in DOMAIN monomorphisation_bindings[i]
                /\ \A j \in i + 1 .. Len(monomorphisation_bindings) :
                        id \notin DOMAIN monomorphisation_bindings[j]][id]

\* the end of the chain of bindings of a variable: the type it ends in, or
\* the unbound variable; the chains of the inputs have at most MaxChain links
MaxChain == 6
Unbound_ == [tag |-> "Unbound"]
RECURSIVE ChainEnd(_, _)
ChainEnd(id, n) ==
    IF ~IsBoundHere(id) \/ n = 0 THEN Unbound_
    ELSE IF BindingHere(id).tag \in {"Var", "Ref"} THEN ChainEnd(BindingHere(id).id, n - 1)
    ELSE BindingHere(id)

\* the kind the claim gives: signed 32-bit for Unknown and for an inferred
\* kind whose chain ends unbound, the kind of the integer the chain ends in,
\* and an abort for any other end
RECURSIVE KindAtEnd(_, _)
KindAtEnd(kind, n) ==
    CASE kind.kind = "Unknown" -> "I32"
      [] kind.kind = "Inferred" /\ ChainEnd(kind.id, MaxChain) = Unbound_ -> "I32"
      [] kind.kind = "Inferred" /\ ChainEnd(kind.id, MaxChain) # Unbound_
            /\ ChainEnd(kind.id, MaxChain).tag = "Prim"
            /\ ChainEnd(kind.id, MaxChain).p = "IntegerType" /\ n > 0 ->
                KindAtEnd(ChainEnd(kind.id, MaxChain).kind, n - 1)
      [] kind.kind \notin {"Unknown", "Inferred"} -> kind.kind
      [] OTHER -> "Panic"

IsIntegerConversion ==
    /\ call.op = "convert_type"
    /\ call.t1.tag = "Prim"
    /\ call.t1.p = "IntegerType"

C19_WitnessChain ==
    /\ IsIntegerConversion
    /\ call.t1.kind = Inferred(2)
    /\ call.result = hir_Integer("U8")

\* an inferred kind bound to a type that is not an integer aborts
C19_WitnessAbort ==
    /\ IsIntegerConversion
    /\ call.t1.kind.kind = "Inferred"
    /\ call.result = Panic

(***************************************************************************)
(* Properties of the inference of an assignment.                           *)
(***************************************************************************)
AssignmentInferred ==
    /\ call.op = "infer"
    /\ Ast[call.result.node].kind = "Assignment"
AssignedLhs == Ast[call.result.node].children[1]
AssignedRhs == Ast[call.result.node].children[2]

\* the left-hand side is a variable that refers to a mutable definition
IsMutableLValue(n) == Ast[n].kind = "Variable" /\ InferMutable(refs[n])

BothSidesInferred ==
    /\ typed[AssignedLhs] /\ typed[AssignedRhs] /\ typed[call.result.node]
    /\ call.result.typ = UnitType
    /\ Len(call.result.traits) = 1 + Len(InferRequiredTraits(refs[AssignedLhs]))
    /\ \A i \in DOMAIN call.result.traits :
          LET c == call.result.traits[i] IN
          IF i = Len(call.result.traits)
          THEN c.trait_id = INT_TRAIT /\ c.callsite = AssignedRhs
          ELSE c.trait_id = InferRequiredTraits(refs[AssignedLhs])[i]
               /\ c.callsite = AssignedLhs

\* C20: inferring an assignment infers both sides, returns unit with the
\* trait constraints of both sides, and gives a diagnostic when the left-hand
\* side is not a mutable l-value.
C20_AssignmentRule ==
    AssignmentInferred =>
        /\ BothSidesInferred
        /\ ~IsMutableLValue(AssignedLhs) => call.result.error_count > 0

\* what the rule does: both sides, unit, the constraints of both sides, and
\* no diagnostic whatever the left-hand side is
C20_AssignmentUnchecked ==
    AssignmentInferred =>
        /\ BothSidesInferred
        /\ call.result.error_count = 0

\* an assignment to the immutable f, whose constraint is returned, was
\* inferred without a diagnostic
C20_ImmutableAssigned ==
    /\ AssignmentInferred
    /\ refs[AssignedLhs] = 2
    /\ Len(call.result.traits) = 2
    /\ call.result.error_count = 0

(***************************************************************************)
(* Specification SpecSort: RefinementContext::type_to_sort on the types of *)
(* a checked program.  types maps a Type to the z3 sort made for it; a     *)
(* request is one call of type_to_sort with the sorts the z3 context holds *)
(* before and after it.                                                    *)
(***************************************************************************)
MaxSortCalls == 3

\* types::Type::Function of the refinement pass: parameters, result, varargs
SortFn(args, return_type, varargs) == Function(args, return_type, UnitType, varargs)

SortCaches ==
    {[id \in Ids |-> Unbound(INITIAL_LEVEL)],
     [[id \in Ids |-> Unbound(INITIAL_LEVEL)] EXCEPT ![1] = Bound(IntType)],
     [[id \in Ids |-> Unbound(INITIAL_LEVEL)] EXCEPT ![1] = Bound(IntType), ![2] = Bound(V1)],
     [[id \in Ids |-> Unbound(INITIAL_LEVEL)] EXCEPT ![2] = Bound(SortFn(<<IntType>>, BoolType, FALSE))]}

SortTypes ==
    {IntType, BoolType, V1, V2,
     SortFn(<<IntType>>, BoolType, FALSE),
     SortFn(<<IntType>>, BoolType, TRUE),
     SortFn(<<V1>>, BoolType, FALSE),
     SortFn(<<V2>>, BoolType, FALSE),
     SortFn(<<V3>>, BoolType, FALSE),
     SortFn(<<SortFn(<<V1>>, BoolType, FALSE)>>, V3, FALSE)}

\* z3 sorts
int_sort == [kind |-> "Int"]
bool_sort == [kind |-> "Bool"]
double_sort == [kind |-> "Real"]
Uninterpreted(name, id) == [kind |-> "Uninterpreted", name |-> name, id |-> id]

\* typ.display(cache): bound variables print as what they are bound to and
\* the unbound ones as a, b, .. in the order find_all_typevars meets them
FirstIndex(seq, x) == CHOOSE i \in DOMAIN seq : seq[i] = x /\ \A j \in 1 .. i - 1 : seq[j] # x
RECURSIVE fmt_type(_, _, _)
fmt_type(typ, typevar_names, cache) ==
    CASE typ.tag = "Prim" -> typ
      [] typ.tag = "Var" ->
            IF cache[typ.id].bound THEN fmt_type(cache[typ.id].typ, typevar_names, cache)
            ELSE [tag |-> "Name", name |-> FirstIndex(typevar_names, typ.id)]
      [] typ.tag = "Fn" ->
            [tag |-> "Fn",
             parameters |-> [i \in DOMAIN typ.parameters |->
                                fmt_type(typ.parameters[i], typevar_names, cache)],
             is_varargs |-> typ.is_varargs,
             return_type |-> fmt_type(typ.return_type, typevar_names, cache)]
display_type(typ, cache) ==
    fmt_type(typ, find_all_typevars(typ, FALSE, cache, INITIAL_LEVEL), cache)

\* the state type_to_sort works on: self.types and the sorts of z3_context
SortState(types_, made) == [types |-> types_, made |-> made]
SortResult(sort, st) == [sort |-> sort, st |-> st]

\* z3_context.uninterpreted_sort(name): z3 either hands out the sort it
\* already holds under that name (reuse) or makes another one
uninterpreted_sort(name, made, reuse) ==
    IF reuse /\ \E i \in DOMAIN made : made[i].name = name
    THEN made[CHOOSE i \in DOMAIN made : made[i].name = name]
    ELSE Uninterpreted(name, Len(made) + 1)

primitive_type_to_sort(typ) ==
    CASE typ.p = "IntegerType" -> int_sort
      [] typ.p = "float" -> double_sort
      [] typ.p = "char" -> int_sort
      [] typ.p \in {"bool", "unit"} -> bool_sort

RECURSIVE type_to_sort(_, _, _, _)
RECURSIVE SortsOfArgs(_, _, _, _, _)

\* args.iter().for_each(|arg| { self.type_to_sort(arg, cache); })
SortsOfArgs(args, i, st, cache, reuse) ==
    IF i > Len(args) THEN st
    ELSE SortsOfArgs(args, i + 1, type_to_sort(args[i], st, cache, reuse).st, cache, reuse)

\* the sort is made and stored under the followed type
InsertSort(key, sort, st) ==
    SortResult(sort, SortState(MapInsert(st.types, key, sort),
                               IF \E i \in DOMAIN st.made : st.made[i] = sort
                               THEN st.made ELSE Append(st.made, sort)))

function_to_sort(typ, st, cache, reuse) ==
    LET args == [i \in DOMAIN typ.parameters |->
                    FullSubst(typ.parameters[i], EmptyMap, cache)]
        return_type == FullSubst(typ.return_type, EmptyMap, cache)
    IN IF typ \in DOMAIN st.types THEN SortResult(st.types[typ], st)
       ELSE LET st2 == type_to_sort(return_type,
                                    SortsOfArgs(args, 1, st, cache, reuse), cache, reuse).st
            IN InsertSort(SortFn(args, return_type, typ.is_varargs),
                          uninterpreted_sort(display_type(typ, cache), st2.made, reuse), st2)

type_to_sort(typ, st, cache, reuse) ==
    CASE typ.tag = "Prim" -> SortResult(primitive_type_to_sort(typ), st)
      [] typ.tag = "Fn" -> function_to_sort(typ, st, cache, reuse)
      [] typ.tag = "Var" ->
            IF cache[typ.id].bound THEN type_to_sort(cache[typ.id].typ, st, cache, reuse)
            ELSE SortResult(int_sort, st)

\* one call of type_to_sort
SortRequest(typ, sort, made_before, made_after) ==
    [typ |-> typ, sort |-> sort, made_before |-> made_before, made_after |-> made_after]

Made == IF requests = <<>> THEN <<>> ELSE requests[Len(requests)].made_after

sort_rest == <<type_bindings, bindings, call, current_level, infer_vars,
               monomorphisation_bindings, definitions, impl_vars, next_id, required_impls>>

InitSort ==
    /\ type_bindings \in SortCaches
    /\ bindings = UnificationBindings_empty
    /\ call = NoCall(type_bindings)
    /\ performs = 0
    /\ current_level = INITIAL_LEVEL
    /\ NoInference
    /\ NoMonomorphisation

TypeToSort ==
    /\ performs < MaxSortCalls
    /\ \E typ \in SortTypes, reuse \in BOOLEAN :
          LET r == type_to_sort(typ, SortState(types, Made), type_bindings, reuse) IN
          /\ types' = r.st.types
          /\ requests' = Append(requests, SortRequest(typ, r.sort, Made, r.st.made))
    /\ performs' = performs + 1
    /\ UNCHANGED sort_rest

NextSort == TypeToSort

SpecSort == InitSort /\ [][NextSort]_vars

(***************************************************************************)
(* Properties of the sorts of function types.                              *)
(***************************************************************************)
\* the signature of a function type: the type after following bindings
Signature(typ) == FullSubst(typ, EmptyMap, type_bindings)
IsSignatureOf(i, j) ==
    /\ requests[i].typ.tag = "Fn"
    /\ requests[j].typ.tag = "Fn"
    /\ Signature(requests[i].typ) = Signature(requests[j].typ)

\* the sorts a request made for the function type passed to it
MadeFor(i) ==
    {k \in DOMAIN requests[i].made_after :
        /\ k > Len(requests[i].made_before)
        /\ requests[i].made_after[k] = requests[i].sort}

\* C21: type_to_sort gives the same uninterpreted sort to function types of
\* the same signature after following bindings, and makes a sort only the
\* first time the signature is seen, also when the type passed still
\* contains bound type variables.
C21_FunctionSorts ==
    \A i \in DOMAIN requests, j \in DOMAIN requests :
        (i < j /\ IsSignatureOf(i, j)) =>
            /\ requests[j].sort = requests[i].sort
            /\ MadeFor(j) = {}

\* a function type that contains no bound variable gets the sort of the
\* last call before it on its signature, and no sort is made for it
C21_FollowedTypesCached ==
    \A i \in DOMAIN requests, j \in DOMAIN requests :
        (/\ i < j /\ IsSignatureOf(i, j)
         /\ requests[j].typ = Signature(requests[j].typ)
         /\ \A k \in i + 1 .. j - 1 : ~IsSignatureOf(k, j)) =>
            /\ requests[j].sort = requests[i].sort
            /\ MadeFor(j) = {}

\* the same type with a bound parameter was passed twice and got two sorts
C21_SortMadeTwice ==
    /\ Len(requests) = 2
    /\ requests[1].typ = SortFn(<<V1>>, BoolType, FALSE)
    /\ requests[2].typ = requests[1].typ
    /\ type_bindings[1].bound
    /\ requests[2].sort # requests[1].sort

(***************************************************************************)
(* Specification SpecLet: Definition::infer_impl from the point where its  *)
(* right-hand side has been inferred.  definitions holds, per definition,  *)
(* cache.definition_infos[d].typ and .required_traits; a request is one    *)
(* inferred definition with what infer_impl returned.                      *)
(***************************************************************************)
MaxLets == 2

\* variables 1 and 3 were made while the right-hand side was inferred,
\* variable 2 belongs to the enclosing scope
LetLevel == INITIAL_LEVEL + 1
LetCache ==
    [id \in Ids |-> IF id = 2 THEN Unbound(LetLevel - 1) ELSE Unbound(LetLevel)]

LetTraits == {<<>>, <<TraitConstraint(1, <<V1>>)>>,
              <<TraitConstraint(1, <<V1>>), TraitConstraint(2, <<V2>>)>>}
RhsCases ==
    {Rhs("Variable", TRUE, t, traits) :
        t \in {V1, V2, Function(<<V1>>, V1, UnitType, FALSE)}, traits \in LetTraits}
    \cup {Rhs("Lambda", e, Function(<<V1>>, r, IF e THEN UnitType ELSE V2, FALSE), traits) :
        e \in BOOLEAN, r \in {V1, V2, IntType}, traits \in LetTraits}
    \cup {Rhs(kind, TRUE, t, traits) :
        kind \in {"FunctionCall", "Literal"}, t \in {V1, V2, IntType}, traits \in LetTraits}

\* cache.definition_infos[d]
LetInfo(typ, required_traits) == [typ |-> typ, required_traits |-> required_traits]
NoType == [poly |-> FALSE, typevars |-> <<>>, typ |-> [tag |-> "NoType"]]
LetDefinitionIds == {1, 2}

\* unify(a, b, location, cache): the bindings are performed, or an error is
\* printed and the cache stays as try_unify left it
unify(a, b, cache) ==
    LET st == try_unify(a, b, cache) IN
    IF st.err = "" THEN UnificationBindings_perform(Accumulator(st), st.cache)
    ELSE st.cache

\* bind_irrefutable_pattern on a variable pattern
LetBound(info, cache) == [info |-> info, cache |-> cache]
bind_irrefutable_pattern(info, typ, required_traits, generalise, cache, cur) ==
    LET unified == IF info.typ # NoType /\ ~info.typ.poly
                   THEN unify(info.typ.typ, typ, cache) ELSE cache
    IN LetBound(LetInfo(IF generalise THEN generalize(typ, unified, cur) ELSE MonoType(typ),
                        info.required_traits \o required_traits),
                unified)

\* traitchecker::resolve_traits(traits, typevars_in_fn, cache): the
\* constraints on a variable of the definition's type are exposed as traits
\* the definition requires, the others are solved here
resolve_traits(traits, typevars_in_fn, cache, cur) ==
    SelectSeq(traits,
              LAMBDA c : Range(FindAllIn(c.args, 1, FALSE, cache, cur))
                             \cap Range(typevars_in_fn) # {})

\* the rest of Definition::infer_impl at level, entered at level previous
InferredLet(info, traits) == [info |-> info.info, cache |-> info.cache, traits |-> traits]
infer_definition(info, rhs, level, cache) ==
    LET first == bind_irrefutable_pattern(info, rhs.t, <<>>, FALSE, cache, level - 1) IN
    IF should_generalize(rhs)
    THEN InferredLet(
             bind_irrefutable_pattern(
                 first.info, rhs.t,
                 resolve_traits(rhs.traits,
                                find_all_typevars(rhs.t, FALSE, first.cache, level - 1),
                                first.cache, level - 1),
                 TRUE, first.cache, level - 1),
             <<>>)
    ELSE InferredLet(first, rhs.traits)

LetRequest(id, rhs, info_before, info_after, traits, cache_before) ==
    [id |-> id, rhs |-> rhs, info_before |-> info_before, info_after |-> info_after,
     traits |-> traits, cache_before |-> cache_before]

let_rest == <<bindings, call, current_level, infer_vars, monomorphisation_bindings,
              types, impl_vars, next_id, required_impls>>

\* definition 2 was referred to before it is inferred: infer_nested_definition
\* has given it the fresh variable 3
InitLet ==
    /\ type_bindings = LetCache
    /\ bindings = UnificationBindings_empty
    /\ call = NoCall(type_bindings)
    /\ performs = 0
    /\ current_level = LetLevel - 1
    /\ NoInference
    /\ monomorphisation_bindings = <<>>
    /\ definitions = (1 :> LetInfo(NoType, <<>>)) @@ (2 :> LetInfo(MonoType(V3), <<>>))
    /\ types = EmptyMap
    /\ direct_impl_mappings = <<EmptyIdMap>>
    /\ indirect_impl_mappings = <<EmptyIdMap>>
    /\ direct_given_impl_mappings = <<EmptyIdMap>>
    /\ indirect_given_impl_mappings = <<EmptyIdMap>>
    /\ next_id = 0
    /\ requests = <<>>
    /\ required_impls = EmptyIdMap

InferLet ==
    /\ performs < MaxLets
    /\ \E id \in LetDefinitionIds, rhs \in RhsCases :
          LET r == infer_definition(definitions[id], rhs, LetLevel, type_bindings) IN
          /\ \A i \in DOMAIN requests : requests[i].id # id
          /\ definitions' = [definitions EXCEPT ![id] = r.info]
          /\ type_bindings' = r.cache
          /\ requests' = Append(requests, LetRequest(id, rhs, definitions[id], r.info,
                                                     r.traits, type_bindings))
    /\ performs' = performs + 1
    /\ UNCHANGED let_rest

NextLet == InferLet

SpecLet == InitLet /\ [][NextLet]_vars

(***************************************************************************)
(* Properties of the value restriction.                                    *)
(***************************************************************************)
\* a named variable, or a lambda that captures nothing
IsSyntacticValue(rhs) ==
    \/ rhs.kind = "Variable"
    \/ rhs.kind = "Lambda" /\ rhs.closure_environment_is_empty

\* C22: a definition is generalised only when its right-hand side is a named
\* variable or a lambda with an empty closure environment; for every other
\* right-hand side the bound name gets a monotype with no quantifier, and
\* the constraints of the right-hand side are returned, none of them
\* attached to the definition.
C22_ValueRestriction ==
    \A i \in DOMAIN requests :
        LET r == requests[i] IN
        /\ r.info_after.typ.poly => IsSyntacticValue(r.rhs)
        /\ ~IsSyntacticValue(r.rhs) =>
              /\ r.info_after.typ = MonoType(r.rhs.t)
              /\ r.info_after.typ.typevars = <<>>
              /\ r.traits = r.rhs.traits
              /\ r.info_after.required_traits = r.info_before.required_traits

\* a call whose result type is a variable of the right-hand side's level,
\* constrained by a trait: the name stays monomorphic, the constraint is
\* returned
C22_Witness ==
    \E i \in DOMAIN requests :
        /\ requests[i].rhs.kind = "FunctionCall"
        /\ requests[i].rhs.t = V1
        /\ requests[i].traits = <<TraitConstraint(1, <<V1>>)>>
        /\ ~definitions[requests[i].id].typ.poly
        /\ definitions[requests[i].id].required_traits = <<>>

\* a lambda that captures nothing is generalised over the variable of its
\* level and requires the constraint on it
C22_WitnessGeneralised ==
    \E i \in DOMAIN requests :
        /\ requests[i].rhs.kind = "Lambda"
        /\ definitions[requests[i].id].typ.poly
        /\ definitions[requests[i].id].typ.typevars = <<1>>
        /\ definitions[requests[i].id].required_traits = <<TraitConstraint(1, <<V1>>)>>

(***************************************************************************)
(* Properties of the let-binding level.                                    *)
(***************************************************************************)
\* the definitions whose right-hand side is being inferred, outermost first
RhsInProgress ==
    {i \in DOMAIN stack : Ast[stack[i].node].kind = "Definition" /\ stack[i].pc = 1}
Innermost(S) == CHOOSE i \in S : \A j \in S : j <= i

\* the level of the innermost right-hand side being inferred
EnclosingLevel(frames) ==
    LET S == {i \in DOMAIN frames :
                 Ast[frames[i].node].kind = "Definition" /\ frames[i].pc = 1}
    IN IF S = {} THEN INITIAL_LEVEL ELSE DefinitionLevel(frames[Innermost(S)].node)

EnterRhs == TopIs("Definition") /\ Top.pc = 0 /\ ~typed[Top.node]
LeaveRhs == TopIs("Definition") /\ Top.pc = 1
DefinitionInferred ==
    /\ call.op = "infer"
    /\ Ast[call.result.node].kind = "Definition"
    /\ call.result.bound # {}

Reenter == TopIs("Definition") /\ Top.pc = 0 /\ typed[Top.node]

\* the right-hand side of every definition in progress belongs to one call
InferredOnce ==
    /\ \A i \in RhsInProgress, j \in RhsInProgress :
          stack[i].node = stack[j].node => i = j
    /\ \A i \in RhsInProgress : typed[stack[i].node]

\* C27: a Definition node is inferred at most once; its type slot is set
\* before its right-hand side is inferred, and any later or re-entrant
\* inference of the node returns unit with no constraints at once and
\* changes neither the level, nor a type binding, nor the stored types.
C27_InferredOnce ==
    /\ []InferredOnce
    /\ [][EnterRhs => /\ ~typed[Ast[Top.node].children[1]]
                      /\ typed'[Top.node]]_vars
    /\ [][Reenter => /\ stack' = Front(stack)
                     /\ call'.result = DefinitionResult(Top.node, <<>>, {}, current_level)
                     /\ current_level' = current_level
                     /\ type_bindings' = type_bindings
                     /\ info_typ' = info_typ
                     /\ typed' = typed]_vars

\* a = a: the reference in the right-hand side of a came back to the
\* Definition node of a, which returned at once; a is still being inferred
C27_Witness ==
    /\ call.op = "infer"
    /\ call.result.node = 3
    /\ call.result.bound = {}
    /\ TopIs("Variable")
    /\ Top.node = 5
    /\ refs[5] = 1
    /\ \E i \in RhsInProgress : stack[i].node = 3

(***************************************************************************)
(* The placeholder of monomorphise_definition_id                           *)
(***************************************************************************)
\* the frames whose definition is being compiled: the right-hand side is
\* monomorphised and monomorphise_nonlocal_definition has not returned
Compiling == {k \in DOMAIN stack : TypedAst[stack[k].node].kind = "Variable" /\ stack[k].pc = 1}

\* the entry of the cache for the definition frame k compiles
EntryOf(k) == GetDefinition(<<stack[k].id, stack[k].typ>>, definitions)

\* the requests for the key of request i that were made after it
LaterRequests(i) == {j \in DOMAIN requests : i < j /\ SameKey(requests[i], requests[j])}

\* the compile requests that have returned
Compiled ==
    {i \in DOMAIN requests :
        /\ requests[i].op = "request" /\ ~requests[i].hit /\ Returned(requests[i])
        /\ DefinitionInfos[requests[i].id].kind = "Definition"}

\* the id was allocated for request i alone: no other compile request was
\* given it
FreshFor(i) ==
    \A j \in DOMAIN requests :
        /\ j # i /\ requests[j].op = "request" /\ ~requests[j].hit
        /\ DefinitionInfos[requests[j].id].kind = "Definition"
        => requests[j].ids_before # requests[i].ids_before

\* C24: while the right-hand side of a definition d is compiled at type t,
\* Context.definitions maps (d, t) to Definition::Normal with the IR
\* definition id allocated for this compilation and no body; every request
\* for (d, t) made since is answered from the table with that id, allocating
\* and compiling nothing; and once the compilation has returned, its result
\* and the entry of (d, t) carry the same id.
C24_Placeholder ==
    /\ \A k \in Compiling :
            /\ stack[k].definition_id = requests[stack[k].request].ids_before
            /\ FreshFor(stack[k].request)
            /\ EntryOf(k) = Some(Normal(stack[k].definition_id, "None"))
            /\ \A j \in LaterRequests(stack[k].request) :
                    /\ requests[j].hit
                    /\ requests[j].ids_after = requests[j].ids_before
                    /\ requests[j].definition = Normal(stack[k].definition_id, "None")
    /\ \A i \in Compiled :
            /\ requests[i].definition = Normal(requests[i].ids_before, "Some")
            /\ GetDefinition(<<requests[i].id, requests[i].typ>>, definitions)
                    = Some(Normal(requests[i].ids_before, "Some"))

\* a definition is requested again while its right-hand side is compiled
C24_Witness ==
    \E k \in Compiling : LaterRequests(stack[k].request) # {}

\* a compilation returned after a recursive request was answered with its
\* placeholder
C24_WitnessReplaced ==
    \E i \in Compiled : \E j \in LaterRequests(i) :
        /\ requests[j].definition = Normal(requests[i].ids_before, "None")
        /\ requests[i].definition = Normal(requests[i].ids_before, "Some")

(***************************************************************************)
(* make_reinterpret_cast and the type constructors that call it.  The log  *)
(* of the calls is kept in requests, their number in performs.             *)
(***************************************************************************)
MaxCasts == 1
MaxSize == 18

\* hir::Ast as far as the casts build it: a value of a known size, the
\* literals, a variable, a tuple, a cast, the lambda of a constructor
SizedValue(size) == [kind |-> "Value", size |-> size]
int_literal(value, int_kind) == [kind |-> "Integer", value |-> value, int_kind |-> int_kind]
unit_literal == [kind |-> "Unit"]
tag_value(tag) == int_literal(tag, "U8")
tuple(fields) == [kind |-> "Tuple", fields |-> fields]
ReinterpretCast(lhs, target_type) ==
    [kind |-> "ReinterpretCast", lhs |-> lhs, target_type |-> target_type]
ConstructorLambda(args, body, typ) ==
    [kind |-> "Lambda", args |-> args, body |-> body, typ |-> typ]
CastPanic == [kind |-> "Panic"]

RECURSIVE size_of_monomorphised_type(_)
RECURSIVE SumMonomorphised(_, _)

SumMonomorphised(fields, i) ==
    IF i > Len(fields) THEN 0
    ELSE size_of_monomorphised_type(fields[i]) + SumMonomorphised(fields, i + 1)

size_of_monomorphised_type(typ) ==
    CASE typ.tag = "HPrim" /\ typ.p = "Integer" ->
            (CASE typ.kind \in {"I8", "U8"} -> 1
               [] typ.kind \in {"I16", "U16"} -> 2
               [] typ.kind \in {"I32", "U32"} -> 4
               [] typ.kind \in {"I64", "U64"} -> 8
               [] typ.kind \in {"Isz", "Usz"} -> ptr_size)
      [] typ.tag = "HPrim" /\ typ.p = "Float" -> 8
      [] typ.tag = "HPrim" /\ typ.p \in {"Char", "Boolean", "Unit"} -> 1
      [] typ.tag = "HPrim" /\ typ.p = "Pointer" -> ptr_size
      [] typ.tag = "HFn" -> ptr_size
      [] typ.tag = "HTuple" -> SumMonomorphised(typ.fields, 1)

\* the mutant of the tower that pads with aligned integers only
type_tower_aligned == << <<"U64", 8>>, <<"U32", 4>>, <<"U16", 2>> >>

type_tower == << <<"U64", 8>>, <<"U32", 4>>, <<"U16", 2>>, <<"U8", 1>> >>

RECURSIVE Padded(_, _, _, _, _)

\* for (int_kind, size) in type_tower { while arg_type_size + size <= target_size ... }
Padded(padded, arg_type_size, target_size, tower, i) ==
    IF i > Len(tower) THEN padded
    ELSE IF arg_type_size + tower[i][2] <= target_size
    THEN Padded(Append(padded, int_literal(0, tower[i][1])),
                arg_type_size + tower[i][2], target_size, tower, i)
    ELSE Padded(padded, arg_type_size, target_size, tower, i + 1)

make_reinterpret_cast(ast, arg_type_size, target_type) ==
    IF arg_type_size > size_of_monomorphised_type(target_type) THEN CastPanic
    ELSE IF arg_type_size = size_of_monomorphised_type(target_type)
    THEN ReinterpretCast(ast, target_type)
    ELSE ReinterpretCast(tuple(Padded(<<ast>>, arg_type_size,
                                      size_of_monomorphised_type(target_type),
                                      type_tower, 1)),
                         target_type)

\* tag: &Option<u8>
NoTag == 0 - 1
TagSize(tag) == IF tag = NoTag THEN 0 ELSE size_of_monomorphised_type(tag_type)
TagArgs(tag) == IF tag = NoTag THEN <<>> ELSE <<tag_value(tag)>>

\* fresh_variable for every parameter, from the next unique id on
FreshArgs(parameters, first) ==
    [i \in DOMAIN parameters |-> <<to_variable(first + i - 1), FALSE>>]

ConstructorBody(tag, fields, tuple_size, target_type) ==
    IF tag = NoTag THEN tuple(fields)
    ELSE make_reinterpret_cast(tuple(fields), tuple_size, target_type)

\* the Function arm: a lambda that gathers the tag and its parameters
FunctionConstructor(tag, function_type, args) ==
    ConstructorLambda(args,
        ConstructorBody(tag, TagArgs(tag) \o [i \in DOMAIN args |-> args[i][1]],
                        SumMonomorphised(function_type.parameters, 1) + TagSize(tag),
                        function_type.return_type),
        function_type)

\* monomorphise_type_constructor on the converted type of the constructor
type_constructor(tag, typ, first) ==
    CASE typ.tag = "HFn" ->
            FunctionConstructor(tag, typ, FreshArgs(typ.parameters, first))
      [] typ.tag = "HTuple" ->
            (IF tag = NoTag THEN unit_literal
             ELSE make_reinterpret_cast(tag_value(tag),
                                        size_of_monomorphised_type(tag_type), typ))
      [] OTHER -> CastPanic

\* the ids fresh_variable takes
FreshCount(typ) == IF typ.tag = "HFn" THEN Len(typ.parameters) ELSE 0

\* a tuple of n bytes, to have a target layout of every size
RECURSIVE Bytes(_)
Bytes(n) == IF n = 0 THEN <<>> ELSE Append(Bytes(n - 1), hir_Integer("U8"))

CastTargets ==
    {hir_Tuple(Bytes(n)) : n \in 0..MaxSize}
        \cup {hir_Tuple(<<tag_type, hir_Integer("I32")>>), hir_Primitive("Float"),
              hir_Function(<<hir_Integer("I32")>>, hir_Primitive("Unit"), FALSE),
              hir_Tuple(<<hir_Integer("Usz"), hir_Tuple(<<hir_Primitive("Pointer"),
                                                          hir_Integer("I16")>>)>>)}

MaybeInt == TypeApplication(UserDefined(2), <<IntType>>)
LinkInt == TypeApplication(UserDefined(5), <<IntType>>)

\* the constructors of the user-defined types with their tags: Some, None,
\* End, Next, Circle, Rect, Dot, the constructor of the struct Pair and None
\* under the other tag
Constructors ==
    {<<0, Function(<<IntType>>, MaybeInt, UnitType, FALSE)>>,
     <<1, MaybeInt>>, <<0, MaybeInt>>,
     <<0, LinkInt>>,
     <<1, Function(<<TypeApplication(PtrType, <<IntType>>)>>, LinkInt, UnitType, FALSE)>>,
     <<0, Function(<<Primitive("float")>>, UserDefined(6), UnitType, FALSE)>>,
     <<1, Function(<<IntType, IntType>>, UserDefined(6), UnitType, FALSE)>>,
     <<2, Function(<<BoolType>>, UserDefined(6), UnitType, FALSE)>>,
     <<NoTag, Function(<<IntType, IntType>>,
                       TypeApplication(UserDefined(1), <<IntType>>), UnitType, FALSE)>>}

CastRequest(ast, arg_type_size, target_type, result) ==
    [op |-> "make_reinterpret_cast", ast |-> ast, arg_type_size |-> arg_type_size,
     target_type |-> target_type, result |-> result]
ConstructorRequest(tag, typ, converted, result) ==
    [op |-> "monomorphise_type_constructor", tag |-> tag, typ |-> typ,
     converted |-> converted, result |-> result]

CastPanicked == requests # <<>> /\ requests[Len(requests)].result = CastPanic

cast_rest == <<type_bindings, bindings, call, current_level, infer_vars,
               monomorphisation_bindings, definitions, impl_vars, required_impls>>

InitCast ==
    /\ type_bindings = Unbound5
    /\ bindings = UnificationBindings_empty
    /\ call = NoCall(type_bindings)
    /\ performs = 0
    /\ current_level = INITIAL_LEVEL
    /\ NoInference
    /\ NoMonomorphisation

MakeReinterpretCast ==
    /\ performs < MaxCasts
    /\ ~CastPanicked
    /\ \E arg_type_size \in 0..MaxSize, target_type \in CastTargets :
          requests' = Append(requests,
                CastRequest(SizedValue(arg_type_size), arg_type_size, target_type,
                    make_reinterpret_cast(SizedValue(arg_type_size), arg_type_size,
                                          target_type)))
    /\ performs' = performs + 1
    /\ UNCHANGED <<cast_rest, types, next_id>>

Constructed(tag, typ, r) ==
    /\ types' = r.types
    /\ next_id' = next_id + FreshCount(r.typ)
    /\ requests' = Append(requests,
            ConstructorRequest(tag, typ, r.typ, type_constructor(tag, r.typ, next_id)))

MonomorphiseTypeConstructor ==
    /\ performs < MaxCasts
    /\ ~CastPanicked
    /\ \E c \in Constructors :
          Constructed(c[1], c[2],
                      convert_type(c[2], types, type_bindings, monomorphisation_bindings))
    /\ performs' = performs + 1
    /\ UNCHANGED cast_rest

NextCast == MakeReinterpretCast \/ MonomorphiseTypeConstructor

SpecCast == InitCast /\ [][NextCast]_vars

(***************************************************************************)
(* Properties of the padding.                                              *)
(***************************************************************************)
CastsLogged == {i \in DOMAIN requests : requests[i].op = "make_reinterpret_cast"}

\* a zero of an unsigned integer type
IsZeroPadding(ast) ==
    ast.kind = "Integer" /\ ast.value = 0 /\ ast.int_kind \in {"U8", "U16", "U32", "U64"}

\* the bytes the fields after the first of a tuple take
RECURSIVE PaddingSize(_, _)
PaddingSize(fields, i) ==
    IF i > Len(fields) THEN 0
    ELSE size_of_monomorphised_type(hir_Integer(fields[i].int_kind))
            + PaddingSize(fields, i + 1)

IsPaddedCast(r, target_size) ==
    /\ r.result.kind = "ReinterpretCast"
    /\ r.result.target_type = r.target_type
    /\ r.result.lhs.kind = "Tuple"
    /\ Len(r.result.lhs.fields) >= 2
    /\ r.result.lhs.fields[1] = r.ast
    /\ \A k \in 2..Len(r.result.lhs.fields) : IsZeroPadding(r.result.lhs.fields[k])
    /\ r.arg_type_size + PaddingSize(r.result.lhs.fields, 2) = target_size

CastRule(r, target_size) ==
    CASE r.arg_type_size > target_size -> r.result = CastPanic
      [] r.arg_type_size = target_size -> r.result = ReinterpretCast(r.ast, r.target_type)
      [] OTHER -> IsPaddedCast(r, target_size)

\* the constructor None of Maybe i32 under the tag 0
IsNoneOfMaybeInt(r) ==
    r.op = "monomorphise_type_constructor" /\ r.tag = 0 /\ r.typ = MaybeInt

\* C25: make_reinterpret_cast of a value of s bytes to a type of t bytes
\* aborts when s > t, casts the value itself when s = t, and otherwise casts
\* a tuple of the value followed by zeros of unsigned integer types whose
\* sizes add up to t - s; None of Maybe i32 becomes the tag 0 followed by
\* one zero of four bytes, cast to the layout of the tag and an i32.
C25_Padding ==
    /\ \A i \in CastsLogged :
            CastRule(requests[i], size_of_monomorphised_type(requests[i].target_type))
    /\ \A i \in DOMAIN requests :
            IsNoneOfMaybeInt(requests[i]) =>
                requests[i].result =
                    ReinterpretCast(tuple(<<int_literal(0, "U8"), int_literal(0, "U32")>>),
                                    hir_Tuple(<<hir_Integer("U8"), hir_Integer("I32")>>))

\* a cast that pads a value of three bytes by fifteen: one zero of each
\* size of the tower
C25_Witness ==
    \E i \in CastsLogged :
        /\ requests[i].result.kind = "ReinterpretCast"
        /\ requests[i].result.lhs.kind = "Tuple"
        /\ Len(requests[i].result.lhs.fields) = 5
        /\ requests[i].arg_type_size = 3

\* the constructor None of Maybe i32 was monomorphised
C25_WitnessNone ==
    \E i \in DOMAIN requests :
        IsNoneOfMaybeInt(requests[i]) /\ requests[i].result.kind = "ReinterpretCast"

\* a cast of a value larger than the target
C25_WitnessAbort ==
    \E i \in CastsLogged : requests[i].result = CastPanic

(***************************************************************************)
(* Specification SpecArity: the unifier on function types and type         *)
(* applications of every arity, on an empty accumulator and on the         *)
(* accumulator of a preceding call.                                        *)
(***************************************************************************)
ArityTypes ==
    { IntType, V1,
      Function(<<V1>>, IntType, UnitType, FALSE),
      Function(<<V2>>, V3, UnitType, TRUE),
      Function(<<IntType, V1>>, V2, UnitType, FALSE),
      Function(<<IntType, V1>>, V2, UnitType, TRUE),
      TypeApplication(Ref(4), <<V2>>),
      TypeApplication(Ref(5), <<V1, IntType>>) }

NextArity ==
    \/ \E t1 \in ArityTypes, t2 \in ArityTypes : TryUnify(t1, t2)
    \/ \E t1 \in ArityTypes, t2 \in ArityTypes : TryUnifyWithBindings(t1, t2)
    \/ Discard

SpecArity == Init /\ [][NextArity]_vars

\* the last call unified two function types, or two type applications, of
\* different arity
UnifiedFunctions ==
    /\ Speculative
    /\ call.t1.tag = "Fn" /\ call.t2.tag = "Fn"
    /\ Len(call.t1.parameters) # Len(call.t2.parameters)
UnifiedApplications ==
    /\ Speculative
    /\ call.t1.tag = "App" /\ call.t2.tag = "App"
    /\ Len(call.t1.args) # Len(call.t2.args)

\* f is varargs and g has at least as many parameters as f
VarargsCovers(f, g) == f.is_varargs /\ Len(g.parameters) >= Len(f.parameters)

\* the call left the accumulator and the cache as it was given them
AccumulatorUnchanged ==
    /\ bindings = call.bindings_before
    /\ call.result = call.bindings_before
    /\ type_bindings = call.cache_before

\* C26: two function types with different parameter counts fail to unify
\* with the argument-count error unless one is varargs and the other has at
\* least as many parameters, two type applications with different numbers
\* of arguments always fail with the arity error, and a call that fails so
\* leaves the bindings accumulator as it was.
C26_ArityErrors ==
    /\ UnifiedFunctions =>
            /\ call.err = "ArgCount"
                    <=> ~(VarargsCovers(call.t1, call.t2) \/ VarargsCovers(call.t2, call.t1))
            /\ call.err = "ArgCount" => AccumulatorUnchanged
    /\ UnifiedApplications =>
            /\ call.err = "Arity"
            /\ AccumulatorUnchanged

\* a varargs function of two parameters against a function of one, on an
\* accumulator that holds bindings
C26_Witness ==
    /\ UnifiedFunctions
    /\ call.op = "try_unify_with_bindings"
    /\ call.err = "ArgCount"
    /\ call.bindings_before # UnificationBindings_empty
    /\ call.t1.is_varargs \/ call.t2.is_varargs

\* type applications of different arity on an accumulator that holds bindings
C26_WitnessApplication ==
    /\ UnifiedApplications
    /\ call.op = "try_unify_with_bindings"
    /\ call.bindings_before # UnificationBindings_empty

\* a varargs function unified with a function of more parameters
C26_WitnessVarargs ==
    /\ UnifiedFunctions
    /\ call.err = ""

(***************************************************************************)
(* extract: the field of a tuple, through a load when the tuple is loaded. *)
(* requests holds the last call, performs counts the calls.                *)
(***************************************************************************)
MaxExtracts == 2
MaxIndex == 3

\* hir::Builtin::Deref(addr, typ) and hir::Builtin::Offset(addr, offset, size)
Builtin_Deref(addr, typ) == [kind |-> "Builtin Deref", addr |-> addr, typ |-> typ]
Builtin_Offset(addr, offset, size) ==
    [kind |-> "Builtin Offset", addr |-> addr, offset |-> offset, size |-> size]

\* Vec::swap_remove(index): the element is replaced by the last one
swap_remove(elems, index) ==
    [k \in 1..(Len(elems) - 1) |-> IF k = index + 1 THEN elems[Len(elems)] ELSE elems[k]]

\* Iterator::take(n)
Take(elems, n) == SubSeq(elems, 1, Min(n, Len(elems)))

\* the mutant of the offset that counts the field at the index as well
FieldOffset_inclusive(elems, member_index) ==
    SumMonomorphised(Take(elems, member_index + 1), 1)

\* elems.into_iter().take(member_index).map(size_of_monomorphised_type).sum()
FieldOffset(elems, member_index) == SumMonomorphised(Take(elems, member_index), 1)

\* the load of the field, from the address or from the address offset
LoadField(addr, field_type, offset) ==
    IF offset = 0 THEN Builtin_Deref(addr, field_type)
    ELSE Builtin_Deref(Builtin_Offset(addr, int_literal(offset, "Usz"), 1), field_type)

extract(ast, member_index) ==
    IF ast.kind = "Builtin Deref"
    THEN IF ast.typ.tag # "HTuple" \/ member_index >= Len(ast.typ.fields) THEN CastPanic
         ELSE LoadField(ast.addr, ast.typ.fields[member_index + 1],
                        FieldOffset(swap_remove(ast.typ.fields, member_index),
                                    member_index))
    ELSE hir_MemberAccess(ast, member_index)

EmptyTuple == hir_Tuple(<<>>)
Inner == hir_Tuple(<<hir_Integer("I16"), hir_Primitive("Float"), hir_Integer("U8")>>)

\* the layouts loaded: fields of different sizes, fields of no size, a
\* tuple in a tuple
ExtractTuples ==
    {hir_Tuple(<<hir_Integer("I32")>>),
     hir_Tuple(<<hir_Integer("U8"), hir_Integer("I32")>>),
     hir_Tuple(<<hir_Integer("I32"), hir_Primitive("Boolean"), hir_Integer("I64")>>),
     hir_Tuple(<<EmptyTuple, hir_Integer("I16"), hir_Primitive("Float")>>),
     hir_Tuple(<<hir_Integer("U8"), Inner, hir_Primitive("Pointer"), Inner>>),
     hir_Tuple(<<hir_Integer("U8"), hir_Integer("U16"), hir_Integer("U32"),
                 hir_Integer("U64")>>),
     EmptyTuple}

ExtractAddresses == {to_variable(0), Builtin_Offset(to_variable(1), int_literal(8, "Usz"), 1)}

\* the expressions extract is given: loads of tuples, a load of an integer,
\* a variable, a tuple
ExtractAsts ==
    {Builtin_Deref(addr, typ) : addr \in ExtractAddresses, typ \in ExtractTuples}
        \cup {Builtin_Deref(to_variable(0), hir_Integer("I32")), to_variable(2),
              tuple(<<to_variable(0), unit_literal>>)}

ExtractRequest(ast, member_index, result) ==
    [op |-> "extract", ast |-> ast, member_index |-> member_index, result |-> result]

\* the expressions of the next call: those of the program and the result
\* of the last call
Extractable ==
    ExtractAsts \cup {requests[k].result : k \in {j \in DOMAIN requests :
                                                       requests[j].result # CastPanic}}

InitExtract == InitCast

Extract ==
    /\ performs < MaxExtracts
    /\ ~CastPanicked
    /\ \E ast \in Extractable, member_index \in 0..MaxIndex :
          requests' = <<ExtractRequest(ast, member_index, extract(ast, member_index))>>
    /\ performs' = performs + 1
    /\ UNCHANGED <<cast_rest, types, next_id>>

NextExtract == Extract

SpecExtract == InitExtract /\ [][NextExtract]_vars

(***************************************************************************)
(* Properties of extract.                                                  *)
(***************************************************************************)
\* the bytes of fields[0..i), counted on the fields in their order
RECURSIVE BytesBefore(_, _)
BytesBefore(fields, i) ==
    IF i = 0 THEN 0
    ELSE BytesBefore(fields, i - 1) + size_of_monomorphised_type(fields[i])

IsLoadOfTuple(ast) == ast.kind = "Builtin Deref" /\ ast.typ.tag = "HTuple"

ExtractRule(r) ==
    IF IsLoadOfTuple(r.ast)
    THEN r.member_index < Len(r.ast.typ.fields) =>
            /\ r.result.kind = "Builtin Deref"
            /\ r.result.typ = r.ast.typ.fields[r.member_index + 1]
            /\ IF BytesBefore(r.ast.typ.fields, r.member_index) = 0
               THEN r.result.addr = r.ast.addr
               ELSE r.result.addr =
                        Builtin_Offset(r.ast.addr,
                            int_literal(BytesBefore(r.ast.typ.fields, r.member_index),
                                        "Usz"), 1)
    ELSE r.ast.kind # "Builtin Deref" => r.result = hir_MemberAccess(r.ast, r.member_index)

\* C28: extract of field i from a load of a tuple is a load of the type of
\* field i from the address offset by the sum of the sizes of the fields
\* before i, from the address itself when that sum is 0; extract from any
\* other expression is a member access with index i.
C28_ExtractThroughLoad ==
    \A k \in DOMAIN requests :
        requests[k].op = "extract" => ExtractRule(requests[k])

\* a field that is not the first nor the last, of a tuple whose last field
\* has a size, is extracted from the result of another extract
C28_Witness ==
    \E k \in DOMAIN requests :
        /\ requests[k].op = "extract"
        /\ IsLoadOfTuple(requests[k].ast)
        /\ requests[k].ast.addr.kind = "Builtin Offset"
        /\ requests[k].ast.addr.offset.value = 1
        /\ requests[k].member_index = 1
        /\ requests[k].result.kind = "Builtin Deref"

\* a field after a field of no size is loaded from the address itself
C28_WitnessNoOffset ==
    \E k \in DOMAIN requests :
        /\ requests[k].op = "extract"
        /\ IsLoadOfTuple(requests[k].ast)
        /\ requests[k].member_index = 1
        /\ requests[k].result.kind = "Builtin Deref"
        /\ requests[k].result.addr = requests[k].ast.addr

\* a member access
C28_WitnessMemberAccess ==
    \E k \in DOMAIN requests :
        requests[k].op = "extract" /\ requests[k].result.kind = "MemberAccess"

(***************************************************************************)
(* Specification SpecLiteral: an integer literal as type inference leaves  *)
(* it is monomorphised: its kind, its type and the size of its type.       *)
(***************************************************************************)
\* Literal::infer_impl on Integer(x, kind): a literal of unknown kind gets
\* the kind Inferred(int_type) and the type TypeVariable(int_type), int_type
\* being the next type variable id; any other keeps its kind
IntegerLiteral(kind, typ) == [kind |-> kind, typ |-> typ]
infer_literal(kind, int_type) ==
    IF kind = IntegerKind("Unknown")
    THEN IntegerLiteral(Inferred(int_type), TypeVariable(int_type))
    ELSE IntegerLiteral(kind, IntegerType(kind))

\* the literals of the program: of unknown kind, with each type variable,
\* and of the kinds written out
Literals ==
    {infer_literal(IntegerKind("Unknown"), int_type) : int_type \in TypeVariableIds}
        \cup {infer_literal(IntegerKind(name), 1) : name \in {"I32", "U8", "I64"}}

\* monomorphise_literal on Integer(n, kind): the kind of the hir literal
monomorphise_literal(literal, cache, mb) == convert_integer_kind(literal.kind, cache, mb)

\* what the monomorphiser makes of a literal: the kind of the hir literal,
\* the hir type of its type and the size of its type
LiteralLowering(literal, kind, typ, size) ==
    [literal |-> literal, kind |-> kind, typ |-> typ, size |-> size]

LowerLiteral ==
    /\ call.op = "none"
    /\ \E literal \in Literals :
          call' = Call("monomorphise_literal", literal.typ, literal.typ, "", 0,
                       type_bindings, UnificationBindings_empty,
                       LiteralLowering(literal,
                           monomorphise_literal(literal, type_bindings,
                                                monomorphisation_bindings),
                           convert_type(literal.typ, types, type_bindings,
                                        monomorphisation_bindings).typ,
                           size_of_type(literal.typ, type_bindings,
                                        monomorphisation_bindings)))
    /\ UNCHANGED <<type_bindings, bindings, performs, current_level, infer_vars,
                   monomorphisation_bindings, definitions, types, impl_vars, next_id,
                   required_impls, requests>>

NextLiteral == LowerLiteral

SpecLiteral == InitConvert /\ [][NextLiteral]_vars

LiteralLowered == call.op = "monomorphise_literal"

\* the type variable of the literal is still unbound: find_binding finds
\* no binding for it in the cache and the monomorphisation bindings
StillUnbound(literal) ==
    /\ literal.kind.kind = "Inferred"
    /\ Context_find_binding(literal.kind.id, RECURSION_LIMIT, type_bindings,
                            monomorphisation_bindings).res = "Err"

\* the kind, the type and the size are those of one integer kind
AgreeOn(lowering, kind, size) ==
    /\ lowering.kind = kind
    /\ lowering.typ = hir_Integer(kind)
    /\ lowering.size = size

\* C29: an integer literal whose inferred type variable is still unbound
\* when it is monomorphised gets the kind I32, its type lowers to the IR
\* type I32 and the size of its type is 4 bytes.
C29_ConsistentDefault ==
    LiteralLowered /\ StillUnbound(call.result.literal) =>
        AgreeOn(call.result, "I32", 4)

\* an unbound literal is the i32 literal of a type that lowers to unit, of
\* one byte
C29_LiteralOfUnit ==
    /\ LiteralLowered
    /\ StillUnbound(call.result.literal)
    /\ call.result.kind = "I32"
    /\ call.result.typ = hir_Primitive("Unit")
    /\ call.result.size = 1

\* the kind, the type and the size agree for every literal that is not
\* left unbound and whose lowering does not abort
C29_BoundAgree ==
    /\ LiteralLowered
    /\ ~StillUnbound(call.result.literal)
    /\ call.result.kind # "Panic"
    => \E kind \in {"I32", "U8", "I64"}, size \in {1, 4, 8} : AgreeOn(call.result, kind, size)

(***************************************************************************)
(* Specification SpecMatch: inference of match expressions.                *)
(*   match e2 with | p3 -> (match (match e10) with | p8 -> e9) | p5 -> e6  *)
(* The types of the leaves are kept in refs, Match.decision_tree of every  *)
(* match in info_typ, the global error count in performs and the           *)
(* diagnostics printed in requests.                                        *)
(***************************************************************************)
MaxErrorsBefore == 1

MatchNode(expression, branches) ==
    [kind |-> "Match", expression |-> expression, branches |-> branches]
MatchLeaf == [kind |-> "Leaf"]

MatchAst ==
    <<MatchNode(2, << <<3, 4>>, <<5, 6>> >>), MatchLeaf, MatchLeaf,
      MatchNode(7, << <<8, 9>> >>), MatchLeaf, MatchLeaf,
      MatchNode(10, <<>>), MatchLeaf, MatchLeaf, MatchLeaf>>

MatchNodes == {n \in DOMAIN MatchAst : MatchAst[n].kind = "Match"}
MatchLeaves == DOMAIN MatchAst \ MatchNodes

\* the types inference gives the leaves, and the leaves whose inference may
\* print a diagnostic of its own
LeafTypes(n) ==
    CASE n = 8 -> {UnitType, IntType}
      [] n = 10 -> {IntType}
      [] OTHER -> {IntType, BoolType}
MayEmit == {6, 10}
MatchPrograms == {r \in [MatchLeaves -> {UnitType, IntType, BoolType}] :
                      \A n \in MatchLeaves : r[n] \in LeafTypes(n)}

\* the expressions of a match in the order infer is called on them: the
\* scrutinee, then the pattern and the branch of every case
Order(node) ==
    <<MatchAst[node].expression>>
        \o [k \in 1..(2 * Len(MatchAst[node].branches)) |->
                MatchAst[node].branches[(k + 1) \div 2][IF k % 2 = 1 THEN 1 ELSE 2]]

\* a call of infer: the expression being inferred (pc is the place in Order),
\* the error count read on entry, and the types held so far
MatchFrame(node, pc, error_count, expression, pattern_type, return_type) ==
    [node |-> node, pc |-> pc, error_count |-> error_count, expression |-> expression,
     pattern_type |-> pattern_type, return_type |-> return_type]

\* the global error counter of crate::error
ERROR_COUNT == performs

\* let error_count = get_error_count(); return_type starts as unit
EnterMatch(node) == MatchFrame(node, 0, ERROR_COUNT, UnitType, UnitType, UnitType)

\* the diagnostics unify prints: one when try_unify fails
unify_errors(t1, t2) == IF try_unify(t1, t2, type_bindings).err # "" THEN 1 ELSE 0

Resumed(frame, errors) == [frame |-> frame, errors |-> errors]

\* the match goes on after infer returned typ for the expression at frame.pc
Resume(frame, typ) ==
    CASE frame.pc = 1 -> Resumed([frame EXCEPT !.expression = typ], 0)
      [] frame.pc = 2 -> Resumed(frame, unify_errors(frame.expression, typ))
      [] frame.pc = 3 -> Resumed([frame EXCEPT !.return_type = typ], 0)
      [] frame.pc > 3 /\ frame.pc % 2 = 0 -> Resumed([frame EXCEPT !.pattern_type = typ], 0)
      [] OTHER -> Resumed(frame, unify_errors(frame.expression, frame.pattern_type)
                                    + unify_errors(frame.return_type, typ))

\* the matches being inferred
MatchesOn(frames) ==
    {frames[k].node : k \in {j \in DOMAIN frames : MatchAst[frames[j].node].kind = "Match"}}

\* a diagnostic printed while the matches of enclosing were being inferred
Diagnostic(enclosing) == [op |-> "diagnostic", enclosing |-> enclosing]
Diagnostics(n, enclosing) == [k \in 1..n |-> Diagnostic(enclosing)]

\* n diagnostics are printed and counted
Emit(n, enclosing) ==
    /\ performs' = performs + n
    /\ requests' = requests \o Diagnostics(n, enclosing)

\* infer returns typ to the match that called it, having printed errors
\* diagnostics; the match unifies what the code unifies at that place
ResumeCaller(r, errors) ==
    /\ stack' = SetLast(Front(stack), r.frame)
    /\ Emit(errors + r.errors, MatchesOn(Front(stack)))

MatchReturn(typ, errors) ==
    IF Len(stack) = 1
    THEN stack' = <<>> /\ Emit(errors, {})
    ELSE ResumeCaller(Resume(stack[Len(stack) - 1], typ), errors)

\* the mutant of the test that compiles the tree only when no error was
\* ever counted
Gate_no_errors(count, error_count) == count = 0

\* if get_error_count() == error_count
Gate(count, error_count) == count = error_count

MatchResult(node, started, finished, decision_tree) ==
    [node |-> node, started |-> started, finished |-> finished,
     decision_tree |-> decision_tree]

match_rest == <<type_bindings, bindings, current_level, refs, monomorphisation_bindings,
                definitions, types, impl_vars, next_id, required_impls>>

InitMatch ==
    /\ type_bindings = Unbound5
    /\ bindings = UnificationBindings_empty
    /\ call = NoCall(type_bindings)
    /\ performs \in 0..MaxErrorsBefore
    /\ current_level = INITIAL_LEVEL
    /\ refs \in MatchPrograms
    /\ typed = [n \in MatchNodes |-> FALSE]
    /\ info_typ = [n \in MatchNodes |-> "None"]
    /\ stack = <<MatchFrame(1, 0, performs, UnitType, UnitType, UnitType)>>
    /\ NoMonomorphisation

TopIsMatch == stack # <<>> /\ MatchAst[Top.node].kind = "Match"

\* infer(expression) for the next expression of the match
InferNext ==
    /\ TopIsMatch
    /\ Top.pc < Len(Order(Top.node))
    /\ stack' = Append(SetLast(stack, [Top EXCEPT !.pc = @ + 1]),
                       EnterMatch(Order(Top.node)[Top.pc + 1]))
    /\ UNCHANGED <<match_rest, call, performs, typed, info_typ, requests>>

\* infer of an expression that is not a match
InferLeafExpression ==
    /\ stack # <<>>
    /\ MatchAst[Top.node].kind = "Leaf"
    /\ \E errors \in 0..(IF Top.node \in MayEmit THEN 1 ELSE 0) :
          MatchReturn(refs[Top.node], errors)
    /\ UNCHANGED <<match_rest, call, typed, info_typ>>

\* the end of Match::infer_impl: the decision tree is compiled and stored
\* when the error count is the one read on entry
InferMatchEnd ==
    /\ TopIsMatch
    /\ Top.pc = Len(Order(Top.node))
    /\ typed' = [typed EXCEPT ![Top.node] = TRUE]
    /\ info_typ' = [info_typ EXCEPT ![Top.node] =
                        IF Gate(ERROR_COUNT, Top.error_count) THEN "Some" ELSE @]
    /\ call' = Call("infer", Top.return_type, Top.return_type, "", 0, type_bindings,
                    UnificationBindings_empty,
                    MatchResult(Top.node, Top.error_count, ERROR_COUNT,
                                info_typ'[Top.node]))
    /\ MatchReturn(Top.return_type, 0)
    /\ UNCHANGED match_rest

NextMatch == InferNext \/ InferLeafExpression \/ InferMatchEnd

SpecMatch == InitMatch /\ [][NextMatch]_vars

(***************************************************************************)
(* Properties of the decision tree.                                        *)
(***************************************************************************)
\* a diagnostic was printed while match m was being inferred
DiagnosedWithin(m) == \E k \in DOMAIN requests : m \in requests[k].enclosing

MatchInferred == call.op = "infer"

\* C30: a match that has been inferred holds a decision tree exactly when
\* the error count at the end of its inference, after the scrutinee, the
\* patterns and the branches, was the count read at the start; a match
\* within whose inference a diagnostic was counted holds none.
C30_TreeGating ==
    /\ MatchInferred =>
            (call.result.decision_tree = "Some"
                <=> call.result.finished = call.result.started)
    /\ \A m \in MatchNodes :
            typed[m] => (info_typ[m] = "Some" <=> ~DiagnosedWithin(m))

\* errors were counted before the match and a diagnostic was printed in the
\* outer match after the inner one: the inner match holds a tree, the
\* outer one does not
C30_Witness ==
    /\ typed[1] /\ typed[4]
    /\ info_typ[4] = "Some" /\ info_typ[1] = "None"
    /\ call.result.started > 0

\* a match is compiled although errors were counted before it
C30_WitnessCompiled ==
    /\ typed[1] /\ info_typ[1] = "Some"
    /\ ERROR_COUNT > 0

====
